---------------------------- MODULE Spec2Model ----------------------------
(***************************************************************************)
(* A model of the call-wrapping policies of                                *)
(* 02-Backend-Development/Python/examples/decorators-example.py, each as   *)
(* the state machine of its wrapper closure:                               *)
(*   SpecRetry     retry                                                   *)
(*   SpecValidate  validate_types on create_user                           *)
(*   SpecMemo      memoize                                                 *)
(*   SpecRate      rate_limit on api_call, one caller                      *)
(*   SpecStack     timer, log_calls and validate_types on multiply         *)
(*   SpecStats     stateful_decorator on process_data, two threads         *)
(*   SpecFib       memoize on the recursive fibonacci                      *)
(*   SpecRace      rate_limit called by two threads                        *)
(* In each specification one policy runs and the variables of the others   *)
(* stay at their initial value.                                            *)
(***************************************************************************)
EXTENDS Integers, Sequences, FiniteSets, TLC

VARIABLES
    \* retry(max_attempts, delay): wrapper locals and an observation of the run
    r_max,        \* max_attempts of the decorator instance
    r_pc,         \* position of the wrapper: idle, try, sleep, raise, done
    r_attempt,    \* the loop variable `attempt`
    r_last,       \* the local `last_exception`
    r_hist,       \* outcomes of the inner callable during the current call
    r_sleeps,     \* time.sleep(delay) calls during the current call
    r_out,        \* how the current / last call of the wrapper ended
    r_calls,      \* calls of the wrapper started so far
    r_seq,        \* exception objects created so far (their identity)
    r_prev,       \* how the previous call of the wrapper ended
    \* memoize(func): the closure's cache and an observation of its use
    m_cache,      \* the dict `cache`: key string -> stored result
    m_first,      \* argument set -> first result returned since the last clear
    m_ever,       \* argument sets the inner callable has ever returned for
    m_seen,       \* argument sets the wrapper has ever been called with
    m_invoked,    \* invocations of the inner callable so far
    m_failed,     \* the inner callable has raised at least once
    m_cleared,    \* cache_clear() has been called at least once
    m_last,       \* the last operation on the wrapper and how it ended
    \* rate_limit(max_calls, time_window): the closure's list and the clock
    rl_clock,     \* what time.time() returns, in seconds
    rl_calls,     \* the list `calls`
    rl_inner,     \* the times at which the inner callable was invoked
    rl_rejects,   \* calls rejected since the last accepted call
    rl_last,      \* the last call of the wrapper and how it ended
    \* validate_types(**expected_types) on create_user
    v_last,       \* the last call of the wrapper and how it ended
    \* timer, log_calls and validate_types stacked on multiply
    s_dir,        \* idle, or the call is on its way in (call) or out (ret)
    s_at,         \* the callable that runs next, or the caller
    s_form,       \* the arguments of the call
    s_clock,      \* what time.time() returns, in seconds
    s_start,      \* the local `start_time` of the timer wrapper
    s_events,     \* the steps taken and the records emitted, in order
    s_flight,     \* the value or exception on its way out
    \* stateful_decorator on process_data
    st_heap,      \* the dict objects: the closure's `state`, the caller's copy
    st_ref,       \* the object the caller got from get_stats, 0 for none
    st_ok,        \* calls that returned since creation or the last reset
    st_last,      \* the last operation on the wrapper and how it ended
    st_pc,        \* thread -> the line of the wrapper it is at, or idle
    st_loc,       \* thread -> the locals of its call of the wrapper
    st_started,   \* calls of the wrapper begun so far
    st_overlap,   \* an operation acted while a call was under way
    \* memoize on fibonacci
    f_stack,      \* the activations of wrapper and body, outermost first
    f_cache,      \* the dict `cache`: key string -> stored result
    f_body,       \* argument -> calls of the body during the top-level call
    f_before,     \* len(cache) when the top-level call began
    f_steps,      \* steps taken by the top-level call
    f_log,        \* the top-level calls that have returned
    \* rate_limit called by two threads
    rc_clock,     \* what time.time() returns, in seconds
    rc_calls,     \* the list `calls`, shared by the callers
    rc_inner,     \* the `now` of each invocation of the inner callable
    rc_pc,        \* caller -> its position in the wrapper
    rc_now,       \* caller -> its local `now`
    rc_view,      \* caller -> the list its comprehension has built
    rc_idx,       \* caller -> the items its comprehension has taken from `calls`
    rc_started,   \* calls of the wrapper started so far
    rc_overlap    \* a caller has entered while the other was inside

retryVars == <<r_max, r_pc, r_attempt, r_last, r_hist, r_sleeps, r_out,
               r_calls, r_seq, r_prev>>

memoVars == <<m_cache, m_first, m_ever, m_seen, m_invoked, m_failed,
              m_cleared, m_last>>

rateVars == <<rl_clock, rl_calls, rl_inner, rl_rejects, rl_last>>

valVars == <<v_last>>

stackVars == <<s_dir, s_at, s_form, s_clock, s_start, s_events, s_flight>>

\* The variables of the policies that have a specification of their own
\* further down.
statVars == <<st_heap, st_ref, st_ok, st_last, st_pc, st_loc, st_started,
              st_overlap>>

fibVars == <<f_stack, f_cache, f_body, f_before, f_steps, f_log>>

raceVars == <<rc_clock, rc_calls, rc_inner, rc_pc, rc_now, rc_view, rc_idx, rc_started,
              rc_overlap>>

lateVars == <<stackVars, statVars, fibVars, raceVars>>

vars == <<retryVars, memoVars, rateVars, valVars, lateVars>>

----------------------------------------------------------------------------
(* Bounds of the model                                                     *)

MaxAttempts == 3
MaxRetryCalls == 2
MaxInvocations == 5
MaxTime == 16
MaxRejects == 4
MaxElapsed == 1
MaxStatCalls == 2
MaxFib == 4
MaxFibCalls == 2
MaxRaceTime == 15
MaxRaceCalls == 5

----------------------------------------------------------------------------
(* Values shared by the policies                                           *)

\* An exception object: its class, its identity and its message.  `None` is
\* NoErr.
Exc(kind, id, msg) == [kind |-> kind, id |-> id, msg |-> msg]
NoErr == Exc("None", 0, "")

\* How a call ended: nothing yet, a returned value, or a raised exception.
NoOutcome == [tag |-> "none", val |-> "None", err |-> NoErr]
Returned(v) == [tag |-> "return", val |-> v, err |-> NoErr]
Raised(e) == [tag |-> "raise", val |-> "None", err |-> e]

\* A call of a wrapper, wrapper(*args, **kwargs): the tuple `args` and the
\* dict `kwargs`.
CallForm(a, k) == [args |-> a, kwargs |-> k]

\* The threads that call one wrapper where the model lets calls interleave.
Callers == {1, 2}

----------------------------------------------------------------------------
(* 5. retry                                                                *)

\* What the inner callable may return, and the classes of Exception it may
\* raise (the handler of line 100 catches subclasses of Exception).
RetVals == {"Success!", "Other"}
ErrKinds == {"Exception", "ValueError"}

\* Classes an inner callable may raise that are not subclasses of
\* Exception: a handler `except Exception` (lines 100 and 136) does not
\* catch them.
EscapeKinds == {"KeyboardInterrupt", "SystemExit"}

\* for attempt in range(max_attempts): the loop runs its body for `attempt`
LoopOffByOne(attempt, max_attempts) == attempt <= max_attempts
InRange(attempt, max_attempts) == attempt < max_attempts

\* A test that is also true for the last attempt.
AttemptsRemainOffByOne(attempt, max_attempts) == attempt < max_attempts

\* if attempt < max_attempts - 1: another attempt follows this failed one
AttemptsRemain(attempt, max_attempts) == attempt < max_attempts - 1

\* except Exception as e: last_exception = e
KeepFirstException(last, e) == IF last = NoErr THEN e ELSE last
ExceptAssign(last, e) == e

\* raise last_exception
RaiseLast(last) == Raised(last)

RetryInit ==
    /\ r_max \in 1..MaxAttempts
    /\ r_pc = "idle"
    /\ r_attempt = 0
    /\ r_last = NoErr
    /\ r_hist = <<>>
    /\ r_sleeps = 0
    /\ r_out = NoOutcome
    /\ r_calls = 0
    /\ r_seq = 0
    /\ r_prev = NoOutcome

\* A wrapper whose attempt counter and last exception live in the closure
\* and are not reset when it is entered.
RetryCallKeepsState ==
    /\ r_pc \in {"idle", "done"}
    /\ r_calls < MaxRetryCalls
    /\ r_calls' = r_calls + 1
    /\ r_prev' = r_out
    /\ r_hist' = <<>>
    /\ r_sleeps' = 0
    /\ r_out' = NoOutcome
    /\ r_pc' = IF InRange(r_attempt, r_max) THEN "try" ELSE "raise"
    /\ UNCHANGED <<r_max, r_seq, r_last, r_attempt>>

\* wrapper(*args, **kwargs) is entered: last_exception = None, the loop starts
RetryCall ==
    /\ r_pc \in {"idle", "done"}
    /\ r_calls < MaxRetryCalls
    /\ r_calls' = r_calls + 1
    /\ r_prev' = r_out
    /\ r_last' = NoErr
    /\ r_attempt' = 0
    /\ r_hist' = <<>>
    /\ r_sleeps' = 0
    /\ r_out' = NoOutcome
    /\ r_pc' = IF InRange(0, r_max) THEN "try" ELSE "raise"
    /\ UNCHANGED <<r_max, r_seq>>

\* A wrapper that keeps the value and goes on with the loop instead of returning.
RetryAttemptKeepsLooping(v) ==
    /\ r_pc = "try"
    /\ r_hist' = Append(r_hist, Returned(v))
    /\ r_attempt' = r_attempt + 1
    /\ r_out' = IF InRange(r_attempt + 1, r_max) THEN r_out ELSE Returned(v)
    /\ r_pc' = IF InRange(r_attempt + 1, r_max) THEN "try" ELSE "done"
    /\ UNCHANGED <<r_max, r_last, r_sleeps, r_calls, r_seq, r_prev>>

\* try: return func(*args, **kwargs)   -- the inner callable returns v
RetryAttemptReturns(v) ==
    /\ r_pc = "try"
    /\ r_hist' = Append(r_hist, Returned(v))
    /\ r_out' = Returned(v)
    /\ r_pc' = "done"
    /\ UNCHANGED <<r_max, r_attempt, r_last, r_sleeps, r_calls, r_seq, r_prev>>

\* except Exception as e: the inner callable raises a new exception of
\* class k, a subclass of Exception.  When range(max_attempts) has no next
\* value the loop ends and `attempt` keeps its last value.
RetryAttemptRaises(k) ==
    /\ r_pc = "try"
    /\ k \in ErrKinds
    /\ LET e == Exc(k, r_seq + 1, "Random failure!") IN
        /\ r_seq' = r_seq + 1
        /\ r_hist' = Append(r_hist, Raised(e))
        /\ r_last' = ExceptAssign(r_last, e)
        /\ IF AttemptsRemain(r_attempt, r_max)
             THEN /\ r_pc' = "sleep"
                  /\ UNCHANGED r_attempt
             ELSE /\ r_attempt' = IF InRange(r_attempt + 1, r_max)
                                    THEN r_attempt + 1 ELSE r_attempt
                  /\ r_pc' = IF InRange(r_attempt + 1, r_max) THEN "try" ELSE "raise"
    /\ UNCHANGED <<r_max, r_sleeps, r_out, r_calls, r_prev>>

\* The inner callable raises an exception of class k that `except Exception`
\* does not catch: it leaves the wrapper at once, with last_exception as it
\* was and no delay.
RetryAttemptEscapes(k) ==
    /\ r_pc = "try"
    /\ k \in EscapeKinds
    /\ LET e == Exc(k, r_seq + 1, "Random failure!") IN
        /\ r_seq' = r_seq + 1
        /\ r_hist' = Append(r_hist, Raised(e))
        /\ r_out' = Raised(e)
        /\ r_pc' = "done"
    /\ UNCHANGED <<r_max, r_attempt, r_last, r_sleeps, r_calls, r_prev>>

\* time.sleep(delay), then the next iteration of the loop
RetrySleep ==
    /\ r_pc = "sleep"
    /\ r_sleeps' = r_sleeps + 1
    /\ r_attempt' = IF InRange(r_attempt + 1, r_max) THEN r_attempt + 1 ELSE r_attempt
    /\ r_pc' = IF InRange(r_attempt + 1, r_max) THEN "try" ELSE "raise"
    /\ UNCHANGED <<r_max, r_last, r_hist, r_out, r_calls, r_seq, r_prev>>

\* raise last_exception, after the loop
RetryRaise ==
    /\ r_pc = "raise"
    /\ r_out' = RaiseLast(r_last)
    /\ r_pc' = "done"
    /\ UNCHANGED <<r_max, r_attempt, r_last, r_hist, r_sleeps, r_calls, r_seq, r_prev>>

----------------------------------------------------------------------------
(* 7. validate_types                                                       *)

\* def create_user(name, age, email): the parameters, in order, none with a
\* default value.
Params == <<"name", "age", "email">>
ParamDefaults == [p \in {} |-> "str"]

\* @validate_types(name=str, age=int, email=str), in the order of the mapping
ExpectedNames == <<"name", "age", "email">>
ExpectedType(p) == IF p = "age" THEN "int" ELSE "str"

\* The types of the argument values of the model: type(value).__name__.
ValueTypes == {"str", "int", "bool"}

\* The calls the model makes: up to three positional values, and keyword
\* values for any of the parameter names.
ValForms ==
    { CallForm(a, k) :
        a \in UNION {[1..n -> ValueTypes] : n \in 0..Len(Params)},
        k \in UNION {[names -> ValueTypes] :
                        names \in SUBSET {Params[i] : i \in 1..Len(Params)}} }

\* isinstance(value, expected_type): bool is a subclass of int
IsInstance(valueType, expected) ==
    \/ valueType = expected
    \/ valueType = "bool" /\ expected = "int"

\* The index of parameter p in the signature.
ParamIndex(p) == CHOOSE i \in 1..Len(Params) : Params[i] = p

\* sig.bind(*args, **kwargs) raises TypeError, with this message ("" when it
\* binds): the positional values are bound first, in order, then the
\* remaining parameters are looked up in kwargs.
BindError(form) ==
    LET given == {i \in 1..Len(form.args) : i <= Len(Params)}
        twice == {i \in given : Params[i] \in DOMAIN form.kwargs}
        missing == {i \in (Len(form.args) + 1)..Len(Params) :
                      Params[i] \notin DOMAIN form.kwargs \cup DOMAIN ParamDefaults}
        First(S) == CHOOSE i \in S : \A j \in S : i <= j
    IN  IF twice # {}
          THEN "multiple values for argument '" \o Params[First(twice)] \o "'"
        ELSE IF Len(form.args) > Len(Params)
          THEN "too many positional arguments"
        ELSE IF missing # {}
          THEN "missing a required argument: '" \o Params[First(missing)] \o "'"
        ELSE ""

\* bound_args.arguments after sig.bind(*args, **kwargs) and apply_defaults()
BoundArguments(form) ==
    [p \in {Params[i] : i \in 1..Len(Params)} |->
        IF ParamIndex(p) <= Len(form.args) THEN form.args[ParamIndex(p)]
        ELSE IF p \in DOMAIN form.kwargs THEN form.kwargs[p]
        ELSE ParamDefaults[p]]

\* A loop that looks at the first entry of expected_types only.
MismatchesOfFirstEntry(bound) ==
    {i \in {1} :
        /\ ExpectedNames[i] \in DOMAIN bound
        /\ ~IsInstance(bound[ExpectedNames[i]], ExpectedType(ExpectedNames[i]))}

\* The positions in expected_types whose parameter is bound to a value that
\* is not an instance of its expected type.
Mismatches(bound) ==
    {i \in 1..Len(ExpectedNames) :
        /\ ExpectedNames[i] \in DOMAIN bound
        /\ ~IsInstance(bound[ExpectedNames[i]], ExpectedType(ExpectedNames[i]))}

\* The loop of lines 162-169 raises at the first mismatch it meets.
FirstMismatch(bound) ==
    CHOOSE i \in Mismatches(bound) : \A j \in Mismatches(bound) : i <= j

\* f"{param_name} must be {expected_type.__name__}, got {type(value).__name__}"
MismatchMessage(p, expected, actual) == p \o " must be " \o expected \o ", got " \o actual

NoBound == [p \in {} |-> "str"]

\* The observation of one call: the call, the binding, whether the inner
\* callable was invoked and how the call ended.
ValObs(op, form, bound, invoked, out) ==
    [op |-> op, form |-> form, bound |-> bound, invoked |-> invoked, out |-> out]

ValInit == v_last = ValObs("none", CallForm(<<>>, NoBound), NoBound, FALSE, NoOutcome)

\* wrapper(*args, **kwargs): sig.bind raises TypeError
ValCallBindFails(form) ==
    /\ v_last.op = "none"
    /\ BindError(form) # ""
    /\ v_last' = ValObs("call", form, NoBound, FALSE,
                        Raised(Exc("TypeError", 0, BindError(form))))

\* wrapper(*args, **kwargs): a bound value fails isinstance: raise TypeError
ValCallRejects(form) ==
    /\ v_last.op = "none"
    /\ BindError(form) = ""
    /\ Mismatches(BoundArguments(form)) # {}
    /\ LET bound == BoundArguments(form)
           p == ExpectedNames[FirstMismatch(bound)]
       IN  v_last' = ValObs("call", form, bound, FALSE,
                            Raised(Exc("TypeError", 0,
                                       MismatchMessage(p, ExpectedType(p), bound[p]))))

\* wrapper(*args, **kwargs): every check passes: return func(*args, **kwargs)
ValCallInvokes(form) ==
    /\ v_last.op = "none"
    /\ BindError(form) = ""
    /\ Mismatches(BoundArguments(form)) = {}
    /\ v_last' = ValObs("call", form, BoundArguments(form), TRUE, Returned("user"))

\* The caller has the outcome; the wrapper keeps nothing from one call to the
\* next, so the next call starts from the same state.
ValReturn ==
    /\ v_last.op = "call"
    /\ v_last' = ValObs("none", CallForm(<<>>, NoBound), NoBound, FALSE, NoOutcome)

----------------------------------------------------------------------------
(* 8. memoize                                                              *)

\* Argument values: an int or a str, with the text Python prints for it.
IntV(t) == [type |-> "int", text |-> t]
StrV(t) == [type |-> "str", text |-> t]

\* One keyword argument of a call, as written at the call site.
Kw(n, v) == [name |-> n, val |-> v]

\* The calls the model makes: f(1), f('1'), f(1, 2), f(a=1, b=2), f(b=2, a=1);
\* `kwargs` is given as its items in insertion order, the order of the call.
MemoForms ==
    { CallForm(<<IntV("1")>>, <<>>),
      CallForm(<<StrV("1")>>, <<>>),
      CallForm(<<IntV("1"), IntV("2")>>, <<>>),
      CallForm(<<>>, <<Kw("a", IntV("1")), Kw("b", IntV("2"))>>),
      CallForm(<<>>, <<Kw("b", IntV("2")), Kw("a", IntV("1"))>>) }

\* What the inner callable may return.
MemoVals == {"r1", "r2"}

\* The argument set of a call: the positional list and the name-to-value
\* mapping, whatever the order the keywords were written in.
ArgSet(form) ==
    [args |-> form.args,
     kw |-> {<<form.kwargs[i].name, form.kwargs[i].val>> : i \in 1..Len(form.kwargs)}]

\* repr() of an argument value: a str is quoted, an int is not.
Repr(v) == IF v.type = "str" THEN "'" \o v.text \o "'" ELSE v.text

\* ', '.join(parts)
RECURSIVE JoinComma(_)
JoinComma(parts) ==
    IF Len(parts) = 0 THEN ""
    ELSE IF Len(parts) = 1 THEN parts[1]
    ELSE parts[1] \o ", " \o JoinComma(Tail(parts))

\* str(args) of the tuple `args`: a one-element tuple prints a trailing comma.
StrTuple(args) ==
    IF Len(args) = 1 THEN "(" \o Repr(args[1]) \o ",)"
    ELSE "(" \o JoinComma([i \in 1..Len(args) |-> Repr(args[i])]) \o ")"

\* The order of str on the keyword names of the model.
NameRank(n) == IF n = "a" THEN 1 ELSE 2

\* sorted(kwargs.items()): the (name, value) pairs in the order of the names.
RECURSIVE InsertItem(_, _)
InsertItem(item, sorted) ==
    IF Len(sorted) = 0 THEN <<item>>
    ELSE IF NameRank(item.name) < NameRank(sorted[1].name) THEN <<item>> \o sorted
    ELSE <<sorted[1]>> \o InsertItem(item, Tail(sorted))

\* The items in the order of the call, not sorted.
UnsortedItems(kwargs) == kwargs

RECURSIVE SortedItems(_)
SortedItems(kwargs) ==
    IF Len(kwargs) = 0 THEN <<>>
    ELSE InsertItem(kwargs[1], SortedItems(Tail(kwargs)))

\* str(items) of a list of (name, value) tuples
StrItems(items) ==
    "[" \o JoinComma([i \in 1..Len(items) |->
                        "('" \o items[i].name \o "', " \o Repr(items[i].val) \o ")"])
        \o "]"

\* key = str(args) + str(sorted(kwargs.items()))
MemoKey(form) == StrTuple(form.args) \o StrItems(SortedItems(form.kwargs))

\* {"size": len(cache), "keys": list(cache.keys())}
CacheInfo(cache) == [size |-> Cardinality(DOMAIN cache), keys |-> DOMAIN cache]

\* cache[key] = value
CachePut(cache, key, value) ==
    [k \in DOMAIN cache \cup {key} |-> IF k = key THEN value ELSE cache[k]]

\* The empty dict.
EmptyCache == [k \in {} |-> "None"]

NoArgSet == [args |-> <<>>, kw |-> {}]
NoInfo == [size |-> 0, keys |-> {}]

\* The observation of one operation: which one, the argument set of a call,
\* whether the argument set had a result (since the last clear / ever) before
\* it, whether it invoked the inner callable, how it ended, what cache_info
\* returned.
LastOp(op, argset, known, everKnown, invoked, out, info) ==
    [op |-> op, argset |-> argset, known |-> known, everKnown |-> everKnown,
     invoked |-> invoked, out |-> out, info |-> info]

MemoInit ==
    /\ m_cache = EmptyCache
    /\ m_first = EmptyCache
    /\ m_ever = {}
    /\ m_seen = {}
    /\ m_invoked = 0
    /\ m_failed = FALSE
    /\ m_cleared = FALSE
    /\ m_last = LastOp("none", NoArgSet, FALSE, FALSE, FALSE, NoOutcome, NoInfo)

\* A test that never finds the key.
AlwaysMiss(cache, key) == TRUE

\* if key not in cache
CacheMiss(cache, key) == key \notin DOMAIN cache

\* A wrapper that stores a marker for the key before it invokes the inner
\* callable, so that a failed computation leaves an entry behind.
MemoCallRaisesStoresEntry(form) ==
    /\ CacheMiss(m_cache, MemoKey(form))
    /\ m_invoked < MaxInvocations
    /\ m_invoked' = m_invoked + 1
    /\ m_failed' = TRUE
    /\ m_seen' = m_seen \cup {ArgSet(form)}
    /\ m_cache' = CachePut(m_cache, MemoKey(form), "None")
    /\ m_last' = LastOp("call", ArgSet(form), ArgSet(form) \in DOMAIN m_first,
                        ArgSet(form) \in m_ever, TRUE,
                        Raised(Exc("Exception", m_invoked + 1, "inner failure")), NoInfo)
    /\ UNCHANGED <<m_first, m_ever, m_cleared>>

\* wrapper(*args, **kwargs), key in cache: return cache[key]
MemoCallHit(form) ==
    /\ ~CacheMiss(m_cache, MemoKey(form))
    /\ m_seen' = m_seen \cup {ArgSet(form)}
    /\ m_last' = LastOp("call", ArgSet(form), ArgSet(form) \in DOMAIN m_first,
                        ArgSet(form) \in m_ever, FALSE,
                        Returned(m_cache[MemoKey(form)]), NoInfo)
    /\ UNCHANGED <<m_cache, m_first, m_ever, m_invoked, m_failed, m_cleared>>

\* wrapper(*args, **kwargs), key not in cache, the inner callable returns v:
\* cache[key] = func(*args, **kwargs); return cache[key]
MemoCallComputes(form, v) ==
    /\ CacheMiss(m_cache, MemoKey(form))
    /\ m_invoked < MaxInvocations
    /\ m_invoked' = m_invoked + 1
    /\ m_seen' = m_seen \cup {ArgSet(form)}
    /\ m_cache' = CachePut(m_cache, MemoKey(form), v)
    /\ m_first' = IF ArgSet(form) \in DOMAIN m_first THEN m_first
                  ELSE CachePut(m_first, ArgSet(form), v)
    /\ m_ever' = m_ever \cup {ArgSet(form)}
    /\ m_last' = LastOp("call", ArgSet(form), ArgSet(form) \in DOMAIN m_first,
                        ArgSet(form) \in m_ever, TRUE,
                        Returned(m_cache'[MemoKey(form)]), NoInfo)
    /\ UNCHANGED <<m_failed, m_cleared>>

\* wrapper(*args, **kwargs), key not in cache, the inner callable raises: the
\* assignment cache[key] = ... never happens and the exception propagates
MemoCallRaises(form) ==
    /\ CacheMiss(m_cache, MemoKey(form))
    /\ m_invoked < MaxInvocations
    /\ m_invoked' = m_invoked + 1
    /\ m_failed' = TRUE
    /\ m_seen' = m_seen \cup {ArgSet(form)}
    /\ m_last' = LastOp("call", ArgSet(form), ArgSet(form) \in DOMAIN m_first,
                        ArgSet(form) \in m_ever, TRUE,
                        Raised(Exc("Exception", m_invoked + 1, "inner failure")), NoInfo)
    /\ UNCHANGED <<m_cache, m_first, m_ever, m_cleared>>

\* A cache_clear that does nothing.
KeepCache(cache) == cache

\* cache.clear()
ClearCache(cache) == EmptyCache

\* wrapper.cache_clear()
MemoCacheClear ==
    /\ m_cache' = ClearCache(m_cache)
    /\ m_first' = EmptyCache
    /\ m_cleared' = TRUE
    /\ m_last' = LastOp("clear", NoArgSet, FALSE, FALSE, FALSE, Returned("None"), NoInfo)
    /\ UNCHANGED <<m_ever, m_seen, m_invoked, m_failed>>

\* wrapper.cache_info()
MemoCacheInfo ==
    /\ m_last' = LastOp("info", NoArgSet, FALSE, FALSE, FALSE, Returned("info"),
                        CacheInfo(m_cache))
    /\ UNCHANGED <<m_cache, m_first, m_ever, m_seen, m_invoked, m_failed, m_cleared>>

----------------------------------------------------------------------------
(* 9. rate_limit                                                           *)

\* @rate_limit(max_calls=3, time_window=10) on api_call
max_calls == 3
time_window == 10

\* The comparison with <= in place of <: an entry exactly time_window old
\* is kept.
KeepsBoundaryEntry(now, call_time) == now - call_time <= time_window

\* A comparison that finds no entry inside the window.
NeverInWindow(now, call_time) == now - call_time < 0

\* now - call_time < time_window: the entry is inside the window
InWindow(now, call_time) == now - call_time < time_window

\* [call_time for call_time in calls if now - call_time < time_window]
Prune(calls, now) == SelectSeq(calls, LAMBDA call_time : InWindow(now, call_time))

\* A check that lets one call too many through.
AdmitsOneMore(pruned) == ~(Len(pruned) > max_calls)

\* not (len(calls) >= max_calls): the call is let through
Admitted(pruned) == ~(Len(pruned) >= max_calls)

\* A wrapper that appends `now` before the check, also for a rejected call.
RecordAlways(pruned, now, admitted) == Append(pruned, now)

\* calls.append(now), reached only when the check did not raise
Record(pruned, now, admitted) == IF admitted THEN Append(pruned, now) ELSE pruned

\* Exception(f"Rate limit exceeded: {max_calls} calls per {time_window} seconds")
RateLimitError ==
    Exc("Exception", 0, "Rate limit exceeded: 3 calls per 10 seconds")

\* The observation of one call: the value of `now`, whether it was let
\* through, how it ended, and the rejected calls since the last accepted one.
RateObs(op, now, accepted, out, rejects) ==
    [op |-> op, now |-> now, accepted |-> accepted, out |-> out, rejects |-> rejects]

RateInit ==
    /\ rl_clock = 0
    /\ rl_calls = <<>>
    /\ rl_inner = <<>>
    /\ rl_rejects = 0
    /\ rl_last = RateObs("none", 0, FALSE, NoOutcome, 0)

\* The clock advances by one second.
RateTick ==
    /\ rl_clock < MaxTime
    /\ rl_clock' = rl_clock + 1
    /\ UNCHANGED <<rl_calls, rl_inner, rl_rejects, rl_last>>

\* wrapper(*args, **kwargs): now = time.time(); prune; check; append; invoke
RateCall ==
    LET now == rl_clock
        pruned == Prune(rl_calls, now)
        admitted == Admitted(pruned)
    IN  /\ admitted \/ rl_rejects < MaxRejects
        /\ rl_calls' = Record(pruned, now, admitted)
        /\ rl_inner' = IF admitted THEN Append(rl_inner, now) ELSE rl_inner
        /\ rl_rejects' = IF admitted THEN 0 ELSE rl_rejects + 1
        /\ rl_last' = RateObs("call", now, admitted,
                              IF admitted THEN Returned("API response")
                              ELSE Raised(RateLimitError),
                              rl_rejects)
        /\ UNCHANGED rl_clock

----------------------------------------------------------------------------
(* 3, 6, 7, 14. timer, log_calls and validate_types stacked on multiply     *)

\* The callable that each wrapper closes over as `func`: decorators apply
\* bottom-up, so timer wraps the log_calls wrapper, which wraps the
\* validate_types wrapper, which wraps multiply.  A decoration order with
\* log_calls and validate_types exchanged comes first.
WrapsExchanged(layer) ==
    CASE layer = "timer" -> "validate_types"
      [] layer = "validate_types" -> "log_calls"
      [] layer = "log_calls" -> "multiply"

Wraps(layer) ==
    CASE layer = "timer" -> "log_calls"
      [] layer = "log_calls" -> "validate_types"
      [] layer = "validate_types" -> "multiply"

StackLayers == {"timer", "log_calls", "validate_types"}

\* The frame that a callable returns or raises into: the wrapper that called
\* it, or the caller of the decorated name.
WrappedBy(f) ==
    IF \E layer \in StackLayers : Wraps(layer) = f
      THEN CHOOSE layer \in StackLayers : Wraps(layer) = f
      ELSE "caller"

\* The name `multiply` is bound to the outermost wrapper.
Outermost == CHOOSE layer \in StackLayers : WrappedBy(layer) = "caller"

\* def multiply(x, y), @validate_types(x=int, y=int)
MulParams == <<"x", "y">>
MulExpectedNames == <<"x", "y">>
MulExpectedType(p) == "int"

\* The argument values of the model.
StackVals == {IntV("4"), IntV("5"), StrV("a")}

\* The keyword arguments of a call, in the order written at the call site.
StackKwargs ==
    {<<>>}
      \cup {<<Kw(n, v)>> : n \in {"x", "y"}, v \in StackVals}
      \cup {<<Kw("x", v), Kw("y", w)>> : v \in StackVals, w \in StackVals}
      \cup {<<Kw("y", w), Kw("x", v)>> : v \in StackVals, w \in StackVals}

\* The calls the model makes: up to two positional values and any keywords.
StackForms ==
    { CallForm(a, k) :
        a \in UNION {[1..n -> StackVals] : n \in 0..Len(MulParams)},
        k \in StackKwargs }

KwNames(kwargs) == {kwargs[i].name : i \in 1..Len(kwargs)}
KwValue(kwargs, n) == kwargs[CHOOSE i \in 1..Len(kwargs) : kwargs[i].name = n].val

\* str(value)
Str(v) == v.text

\* int(text) of the text of an int value
IntOf(text) == CHOOSE n \in 0..99 : ToString(n) = text

\* x * y in the body of multiply, on two int values
Product(x, y) == IntV(ToString(IntOf(x.text) * IntOf(y.text)))

\* inspect.signature(multiply).bind(*args, **kwargs): the message of the
\* TypeError, "" when the arguments bind
MulBindError(form) ==
    LET given == {i \in 1..Len(form.args) : i <= Len(MulParams)}
        twice == {i \in given : MulParams[i] \in KwNames(form.kwargs)}
        missing == {i \in (Len(form.args) + 1)..Len(MulParams) :
                      MulParams[i] \notin KwNames(form.kwargs)}
        First(S) == CHOOSE i \in S : \A j \in S : i <= j
    IN  IF twice # {}
          THEN "multiple values for argument '" \o MulParams[First(twice)] \o "'"
        ELSE IF Len(form.args) > Len(MulParams)
          THEN "too many positional arguments"
        ELSE IF missing # {}
          THEN "missing a required argument: '" \o MulParams[First(missing)] \o "'"
        ELSE ""

\* bound_args.arguments
MulBound(form) ==
    [p \in {"x", "y"} |->
        LET i == CHOOSE j \in 1..Len(MulParams) : MulParams[j] = p
        IN  IF i <= Len(form.args) THEN form.args[i] ELSE KwValue(form.kwargs, p)]

\* The positions of expected_types whose value fails isinstance.
MulMismatches(bound) ==
    {i \in 1..Len(MulExpectedNames) :
        ~IsInstance(bound[MulExpectedNames[i]].type, MulExpectedType(MulExpectedNames[i]))}

\* The TypeError of the validate_types wrapper for this call, NoErr when the
\* call passes.
MulValidationError(form) ==
    IF MulBindError(form) # "" THEN Exc("TypeError", 1, MulBindError(form))
    ELSE IF MulMismatches(MulBound(form)) # {}
      THEN LET bound == MulBound(form)
               i == CHOOSE k \in MulMismatches(bound) :
                       \A j \in MulMismatches(bound) : k <= j
               p == MulExpectedNames[i]
           IN  Exc("TypeError", 1, MismatchMessage(p, MulExpectedType(p), bound[p].type))
    ELSE NoErr

\* args_str, kwargs_str and all_args of the log_calls wrapper
ArgsStr(form) == JoinComma([i \in 1..Len(form.args) |-> Str(form.args[i])])
KwargsStr(form) ==
    JoinComma([i \in 1..Len(form.kwargs) |->
                 form.kwargs[i].name \o "=" \o Str(form.kwargs[i].val)])
AllArgs(form) ==
    JoinComma(SelectSeq(<<ArgsStr(form), KwargsStr(form)>>, LAMBDA s : s # ""))

\* f"Calling {func.__name__}({all_args})"
CallRecord(form) == "Calling multiply(" \o AllArgs(form) \o ")"

\* f"{func.__name__} returned: {result}"
ResultRecord(result) == "multiply returned: " \o Str(result)

\* f"{func.__name__} raised {type(e).__name__}: {e}"
ErrorRecord(e) == "multiply raised " \o e.kind \o ": " \o e.msg

\* f"{func.__name__} took {execution_time:.4f} seconds to execute", for a
\* whole number of seconds
TimerLine(execution_time) ==
    "multiply took " \o ToString(execution_time) \o ".0000 seconds to execute"

\* What the run of one call leaves behind, in order: the steps of the
\* wrappers and the records they emit.  `level` is the level of a log
\* record, "" otherwise.
Event(kind, level, text) == [kind |-> kind, level |-> level, text |-> text]

\* The in-flight outcome of the stack holds values, not result names.
NoValue == [type |-> "NoneType", text |-> "None"]
StackNone == [tag |-> "none", val |-> NoValue, err |-> NoErr]
StackReturned(v) == [tag |-> "return", val |-> v, err |-> NoErr]
StackRaised(e) == [tag |-> "raise", val |-> NoValue, err |-> e]

StackInit ==
    /\ s_dir = "idle"
    /\ s_at = "caller"
    /\ s_form = CallForm(<<>>, <<>>)
    /\ s_clock = 0
    /\ s_start = 0
    /\ s_events = <<>>
    /\ s_flight = StackNone

\* multiply(*args, **kwargs) at the call site: the outermost wrapper runs
StackCall(form) ==
    /\ s_dir = "idle"
    /\ s_dir' = "call"
    /\ s_at' = Outermost
    /\ s_form' = form
    /\ s_events' = <<>>
    /\ s_flight' = StackNone
    /\ UNCHANGED <<s_clock, s_start>>

\* Time passes while the call runs.
StackTick ==
    /\ s_dir \in {"call", "ret"}
    /\ s_at # "caller"
    /\ s_clock < MaxElapsed
    /\ s_clock' = s_clock + 1
    /\ UNCHANGED <<s_dir, s_at, s_form, s_start, s_events, s_flight>>

\* timer, line 55: start_time = time.time(), then func(*args, **kwargs)
TimerStart ==
    /\ s_dir = "call" /\ s_at = "timer"
    /\ s_start' = s_clock
    /\ s_events' = Append(s_events, Event("timer_start", "", ""))
    /\ s_at' = Wraps("timer")
    /\ UNCHANGED <<s_dir, s_form, s_clock, s_flight>>

\* timer, line 56 raises: the wrapper has no handler, lines 57-60 do not run
TimerUnwinds ==
    /\ s_dir = "ret" /\ s_at = "timer"
    /\ s_flight.tag = "raise"
    /\ s_at' = WrappedBy("timer")
    /\ UNCHANGED <<s_dir, s_form, s_clock, s_start, s_events, s_flight>>

\* timer, lines 57-60: func returned: print the duration, return result
TimerReport ==
    /\ s_dir = "ret" /\ s_at = "timer"
    /\ s_flight.tag = "return"
    /\ s_events' = Append(s_events, Event("timer_report", "", TimerLine(s_clock - s_start)))
    /\ s_at' = WrappedBy("timer")
    /\ UNCHANGED <<s_dir, s_form, s_clock, s_start, s_flight>>

\* log_calls, lines 125-133: log the call, then func(*args, **kwargs)
LogCallRecord ==
    /\ s_dir = "call" /\ s_at = "log_calls"
    /\ s_events' = Append(s_events, Event("log", "INFO", CallRecord(s_form)))
    /\ s_at' = Wraps("log_calls")
    /\ UNCHANGED <<s_dir, s_form, s_clock, s_start, s_flight>>

\* log_calls, lines 134-135: func returned: log the result, return it
LogResult ==
    /\ s_dir = "ret" /\ s_at = "log_calls"
    /\ s_flight.tag = "return"
    /\ s_events' = Append(s_events, Event("log", "INFO", ResultRecord(s_flight.val)))
    /\ s_at' = WrappedBy("log_calls")
    /\ UNCHANGED <<s_dir, s_form, s_clock, s_start, s_flight>>

\* A handler that logs the error and returns None in place of raising.
LogExceptionSwallows ==
    /\ s_dir = "ret" /\ s_at = "log_calls"
    /\ s_flight.tag = "raise"
    /\ s_flight.err.kind \notin EscapeKinds
    /\ s_events' = Append(s_events, Event("log", "ERROR", ErrorRecord(s_flight.err)))
    /\ s_flight' = StackReturned(NoValue)
    /\ s_at' = WrappedBy("log_calls")
    /\ UNCHANGED <<s_dir, s_form, s_clock, s_start>>

\* log_calls, lines 132-138: func raised what `except Exception` does not
\* catch: it leaves the wrapper with no record
LogUnwinds ==
    /\ s_dir = "ret" /\ s_at = "log_calls"
    /\ s_flight.tag = "raise"
    /\ s_flight.err.kind \in EscapeKinds
    /\ s_at' = WrappedBy("log_calls")
    /\ UNCHANGED <<s_dir, s_form, s_clock, s_start, s_events, s_flight>>

\* log_calls, lines 136-138: func raised an Exception: log it, raise
LogException ==
    /\ s_dir = "ret" /\ s_at = "log_calls"
    /\ s_flight.tag = "raise"
    /\ s_flight.err.kind \notin EscapeKinds
    /\ s_events' = Append(s_events, Event("log", "ERROR", ErrorRecord(s_flight.err)))
    /\ s_at' = WrappedBy("log_calls")
    /\ UNCHANGED <<s_dir, s_form, s_clock, s_start, s_flight>>

\* validate_types, lines 157-169: bind or isinstance fails: raise TypeError
ValidateRaises ==
    /\ s_dir = "call" /\ s_at = "validate_types"
    /\ MulValidationError(s_form) # NoErr
    /\ s_events' = Append(s_events, Event("validation", "", MulValidationError(s_form).msg))
    /\ s_flight' = StackRaised(MulValidationError(s_form))
    /\ s_dir' = "ret"
    /\ s_at' = WrappedBy("validate_types")
    /\ UNCHANGED <<s_form, s_clock, s_start>>

\* validate_types, lines 157-171: every check passes: func(*args, **kwargs)
ValidatePasses ==
    /\ s_dir = "call" /\ s_at = "validate_types"
    /\ MulValidationError(s_form) = NoErr
    /\ s_events' = Append(s_events, Event("validation", "", ""))
    /\ s_at' = Wraps("validate_types")
    /\ UNCHANGED <<s_dir, s_form, s_clock, s_start, s_flight>>

\* validate_types, line 171: return what func returned; the wrapper has no
\* handler, what func raised goes on
ValidateReturns ==
    /\ s_dir = "ret" /\ s_at = "validate_types"
    /\ s_at' = WrappedBy("validate_types")
    /\ UNCHANGED <<s_dir, s_form, s_clock, s_start, s_events, s_flight>>

\* multiply, line 366: return x * y
MultiplyBody ==
    /\ s_dir = "call" /\ s_at = "multiply"
    /\ s_events' = Append(s_events, Event("inner", "", ""))
    /\ s_flight' = StackReturned(Product(MulBound(s_form)["x"], MulBound(s_form)["y"]))
    /\ s_dir' = "ret"
    /\ s_at' = WrappedBy("multiply")
    /\ UNCHANGED <<s_form, s_clock, s_start>>

\* multiply, line 366: the user interrupts the program while the body runs:
\* KeyboardInterrupt is raised in it
MultiplyInterrupted ==
    /\ s_dir = "call" /\ s_at = "multiply"
    /\ s_events' = Append(s_events, Event("inner", "", ""))
    /\ s_flight' = StackRaised(Exc("KeyboardInterrupt", 1, ""))
    /\ s_dir' = "ret"
    /\ s_at' = WrappedBy("multiply")
    /\ UNCHANGED <<s_form, s_clock, s_start>>

\* The caller has the outcome of the call; the wrappers keep nothing from
\* one call to the next.
StackReturn ==
    /\ s_dir = "ret" /\ s_at = "caller"
    /\ s_dir' = "idle"
    /\ s_form' = CallForm(<<>>, <<>>)
    /\ s_clock' = 0
    /\ s_start' = 0
    /\ s_events' = <<>>
    /\ s_flight' = StackNone
    /\ UNCHANGED s_at

----------------------------------------------------------------------------
(* 15. stateful_decorator on process_data                                  *)
(* The wrapper waits inside the inner callable and holds no lock, so the     *)
(* lines of one call interleave with the operations of another thread.       *)

\* The dict object of the closure (`state`) and the one object at a time
\* that a caller holds from get_stats().
StateObject == 1
CallerObject == 2

\* {"calls": 0, "total_time": 0}.  A value of state['total_time'] is the
\* int 0 of lines 373 and 391, or the float that line 383 makes of it by
\* adding a difference of two time.time() values; val is the number in
\* seconds.
ZeroStats == [calls |-> 0, total_time |-> [type |-> "int", val |-> 0]]

\* The arguments of the model: a list of three items, and an int, which has
\* no len().
StatData == {[type |-> "list", len |-> 3], [type |-> "int", len |-> 0]}

\* process_data(data): return len(data)
ProcessData(data) ==
    IF data.type = "list" THEN Returned(data.len)
    ELSE Raised(Exc("TypeError", 1, "object of type 'int' has no len()"))

\* The observation of one operation: the state dict before it, and how it
\* ended.
StatObs(op, before, out) == [op |-> op, before |-> before, out |-> out]

\* The locals of a call that has not begun.
NoLocals == [data |-> [type |-> "int", len |-> 0], result |-> NoOutcome,
             elapsed |-> 0, before |-> ZeroStats]

StatInit ==
    /\ st_heap = [o \in {StateObject, CallerObject} |-> ZeroStats]
    /\ st_ref = 0
    /\ st_ok = 0
    /\ st_last = StatObs("none", ZeroStats, NoOutcome)
    /\ st_pc = [c \in Callers |-> "idle"]
    /\ st_loc = [c \in Callers |-> NoLocals]
    /\ st_started = 0
    /\ st_overlap = FALSE

\* Thread c calls wrapper(data): start_time = time.time(), line 378
StatStart(c, data) ==
    /\ st_pc[c] = "idle"
    /\ st_started < MaxStatCalls
    /\ st_started' = st_started + 1
    /\ st_pc' = [st_pc EXCEPT ![c] = "inner"]
    /\ st_loc' = [st_loc EXCEPT ![c] =
                    [NoLocals EXCEPT !.data = data, !.before = st_heap[StateObject]]]
    /\ st_overlap' = (st_overlap \/ \E d \in Callers : st_pc[d] # "idle")
    /\ UNCHANGED <<st_heap, st_ref, st_ok, st_last>>

\* result = func(*args, **kwargs) and end_time = time.time(), lines 379-380:
\* process_data sleeps (line 399) and returns after `elapsed` units of time,
\* at least one, or raises, and then the rest of the wrapper does not run
StatInner(c, elapsed) ==
    /\ st_pc[c] = "inner"
    /\ LET out == ProcessData(st_loc[c].data) IN
        IF out.tag = "return"
          THEN /\ st_pc' = [st_pc EXCEPT ![c] = "count"]
               /\ st_loc' = [st_loc EXCEPT ![c].result = out, ![c].elapsed = elapsed]
               /\ UNCHANGED st_last
          ELSE /\ st_pc' = [st_pc EXCEPT ![c] = "idle"]
               /\ st_loc' = [st_loc EXCEPT ![c] = NoLocals]
               /\ st_last' = StatObs("call", st_loc[c].before, out)
    /\ UNCHANGED <<st_heap, st_ref, st_ok, st_started, st_overlap>>

\* state['calls'] += 1, line 382
StatCount(c) ==
    /\ st_pc[c] = "count"
    /\ st_heap' = [st_heap EXCEPT ![StateObject].calls = @ + 1]
    /\ st_pc' = [st_pc EXCEPT ![c] = "time"]
    /\ UNCHANGED <<st_ref, st_ok, st_last, st_loc, st_started, st_overlap>>

\* state['total_time'] += end_time - start_time, line 383: the sum with a
\* float is a float
StatAddTime(c) ==
    /\ st_pc[c] = "time"
    /\ st_heap' = [st_heap EXCEPT ![StateObject].total_time =
                                      [type |-> "float", val |-> @.val + st_loc[c].elapsed]]
    /\ st_pc' = [st_pc EXCEPT ![c] = "print"]
    /\ UNCHANGED <<st_ref, st_ok, st_last, st_loc, st_started, st_overlap>>

\* The print of lines 385-386: its argument divides state['total_time'] by
\* state['calls'], which raises when "calls" is 0, with the message of the
\* division of a float or of an int; otherwise the line is written out
StatPrint(c) ==
    /\ st_pc[c] = "print"
    /\ LET state == st_heap[StateObject] IN
        IF state.calls = 0
          THEN /\ st_last' = StatObs("call", st_loc[c].before,
                                     Raised(Exc("ZeroDivisionError", 1,
                                                IF state.total_time.type = "float"
                                                  THEN "float division by zero"
                                                  ELSE "division by zero")))
               /\ st_pc' = [st_pc EXCEPT ![c] = "idle"]
               /\ st_loc' = [st_loc EXCEPT ![c] = NoLocals]
          ELSE /\ st_pc' = [st_pc EXCEPT ![c] = "return"]
               /\ UNCHANGED <<st_last, st_loc>>
    /\ UNCHANGED <<st_heap, st_ref, st_ok, st_started, st_overlap>>

\* return result, line 388, after print has written the line
StatReturn(c) ==
    /\ st_pc[c] = "return"
    /\ st_ok' = st_ok + 1
    /\ st_last' = StatObs("call", st_loc[c].before, st_loc[c].result)
    /\ st_pc' = [st_pc EXCEPT ![c] = "idle"]
    /\ st_loc' = [st_loc EXCEPT ![c] = NoLocals]
    /\ UNCHANGED <<st_heap, st_ref, st_started, st_overlap>>

\* wrapper.reset_stats(): state.update({"calls": 0, "total_time": 0})
StatReset ==
    /\ st_heap' = [st_heap EXCEPT ![StateObject] = ZeroStats]
    /\ st_ok' = 0
    /\ st_last' = StatObs("reset_stats", st_heap[StateObject], Returned("None"))
    /\ st_overlap' = (st_overlap \/ \E d \in Callers : st_pc[d] # "idle")
    /\ UNCHANGED <<st_ref, st_pc, st_loc, st_started>>

\* A get_stats that hands out the dict of the closure itself.
StatGetStatsAliases ==
    /\ st_ref' = StateObject
    /\ st_last' = StatObs("get_stats", st_heap[StateObject], Returned("stats"))
    /\ st_overlap' = (st_overlap \/ \E d \in Callers : st_pc[d] # "idle")
    /\ UNCHANGED <<st_heap, st_ok, st_pc, st_loc, st_started>>

\* wrapper.get_stats(): state.copy(), a new dict with the same items
StatGetStats ==
    /\ st_heap' = [st_heap EXCEPT ![CallerObject] = st_heap[StateObject]]
    /\ st_ref' = CallerObject
    /\ st_last' = StatObs("get_stats", st_heap[StateObject], Returned("stats"))
    /\ st_overlap' = (st_overlap \/ \E d \in Callers : st_pc[d] # "idle")
    /\ UNCHANGED <<st_ok, st_pc, st_loc, st_started>>

\* The caller changes the mapping it got: stats["calls"] = value
StatCallerWrites(value) ==
    /\ st_ref # 0
    /\ st_heap[st_ref].calls # value
    /\ st_heap' = [st_heap EXCEPT ![st_ref].calls = value]
    /\ st_last' = StatObs("write", st_heap[StateObject], Returned("None"))
    /\ st_overlap' = (st_overlap \/ \E d \in Callers : st_pc[d] # "idle")
    /\ UNCHANGED <<st_ref, st_ok, st_pc, st_loc, st_started>>

----------------------------------------------------------------------------
(* 8. memoize on fibonacci: the body calls the wrapper again               *)

\* The arguments of the calls of the model.
FibArgs == (0 - 1)..MaxFib

\* The key of fibonacci(n): str((n,)) + str([])
FibKey(n) == MemoKey(CallForm(<<IntV(ToString(n))>>, <<>>))

\* One activation of the wrapper and, once it has invoked func, of the body
\* of fibonacci: the argument, the position, and the value held so far.
\* Positions: lookup (line 193), body (line 211), first and second (the two
\* calls of line 213 under way), between (the first has returned), store
\* (func has returned `acc`, line 196).
Frame(n, pc, acc) == [n |-> n, pc |-> pc, acc |-> acc]

NoBodyCalls == [k \in FibArgs |-> 0]

FibInit ==
    /\ f_stack = <<>>
    /\ f_cache = [k \in {} |-> 0]
    /\ f_body = NoBodyCalls
    /\ f_before = 0
    /\ f_steps = 0
    /\ f_log = <<>>

\* The top activation, and the stack with it replaced.
FibTop == f_stack[Len(f_stack)]
FibSetTop(frame) == [f_stack EXCEPT ![Len(f_stack)] = frame]

\* The stack after the top activation returned v to the activation below:
\* the first operand of line 213 is kept, the second is added to it.
FibReturnTo(stack, v) ==
    LET rest == SubSeq(stack, 1, Len(stack) - 1)
    IN  IF rest = <<>> THEN rest
        ELSE [rest EXCEPT ![Len(rest)] =
                IF @.pc = "first" THEN Frame(@.n, "between", v)
                ELSE Frame(@.n, "store", @.acc + v)]

\* The record of the calls made at the top level, with one more when the
\* outermost activation returned v.
FibLogged(stack, v, cache) ==
    IF Len(stack) = 1
      THEN Append(f_log, [n |-> stack[1].n, result |-> v, body |-> f_body,
                          before |-> f_before, after |-> CacheInfo(cache).size])
      ELSE f_log

\* fibonacci(n) at the top level
FibCall(n) ==
    /\ f_stack = <<>>
    /\ Len(f_log) < MaxFibCalls
    /\ f_stack' = <<Frame(n, "lookup", 0)>>
    /\ f_body' = NoBodyCalls
    /\ f_before' = CacheInfo(f_cache).size
    /\ f_steps' = 0
    /\ UNCHANGED <<f_cache, f_log>>

\* wrapper, lines 191-200, key in cache: return cache[key]
FibHit ==
    /\ f_stack # <<>> /\ FibTop.pc = "lookup"
    /\ ~CacheMiss(f_cache, FibKey(FibTop.n))
    /\ f_stack' = FibReturnTo(f_stack, f_cache[FibKey(FibTop.n)])
    /\ f_log' = FibLogged(f_stack, f_cache[FibKey(FibTop.n)], f_cache)
    /\ f_steps' = f_steps + 1
    /\ UNCHANGED <<f_cache, f_body, f_before>>

\* wrapper, lines 191-196, key not in cache: func(*args, **kwargs) is called
FibMiss ==
    /\ f_stack # <<>> /\ FibTop.pc = "lookup"
    /\ CacheMiss(f_cache, FibKey(FibTop.n))
    /\ f_stack' = FibSetTop(Frame(FibTop.n, "body", 0))
    /\ f_body' = [f_body EXCEPT ![FibTop.n] = @ + 1]
    /\ f_steps' = f_steps + 1
    /\ UNCHANGED <<f_cache, f_before, f_log>>

\* fibonacci, lines 211-212: if n < 2: return n
FibBase ==
    /\ f_stack # <<>> /\ FibTop.pc = "body"
    /\ FibTop.n < 2
    /\ f_stack' = FibSetTop(Frame(FibTop.n, "store", FibTop.n))
    /\ f_steps' = f_steps + 1
    /\ UNCHANGED <<f_cache, f_body, f_before, f_log>>

\* fibonacci, line 213: the call fibonacci(n-1)
FibFirst ==
    /\ f_stack # <<>> /\ FibTop.pc = "body"
    /\ ~(FibTop.n < 2)
    /\ f_stack' = Append(FibSetTop(Frame(FibTop.n, "first", 0)),
                         Frame(FibTop.n - 1, "lookup", 0))
    /\ f_steps' = f_steps + 1
    /\ UNCHANGED <<f_cache, f_body, f_before, f_log>>

\* fibonacci, line 213: the call fibonacci(n-2)
FibSecond ==
    /\ f_stack # <<>> /\ FibTop.pc = "between"
    /\ f_stack' = Append(FibSetTop(Frame(FibTop.n, "second", FibTop.acc)),
                         Frame(FibTop.n - 2, "lookup", 0))
    /\ f_steps' = f_steps + 1
    /\ UNCHANGED <<f_cache, f_body, f_before, f_log>>

\* A wrapper that returns what func returned and stores nothing.
FibStoreForgets ==
    /\ f_stack # <<>> /\ FibTop.pc = "store"
    /\ f_stack' = FibReturnTo(f_stack, FibTop.acc)
    /\ f_log' = FibLogged(f_stack, FibTop.acc, f_cache)
    /\ f_steps' = f_steps + 1
    /\ UNCHANGED <<f_cache, f_body, f_before>>

\* wrapper, lines 196-200: cache[key] = the value func returned; return
\* cache[key]
FibStore ==
    /\ f_stack # <<>> /\ FibTop.pc = "store"
    /\ f_cache' = CachePut(f_cache, FibKey(FibTop.n), FibTop.acc)
    /\ f_stack' = FibReturnTo(f_stack, f_cache'[FibKey(FibTop.n)])
    /\ f_log' = FibLogged(f_stack, f_cache'[FibKey(FibTop.n)], f_cache')
    /\ f_steps' = f_steps + 1
    /\ UNCHANGED <<f_body, f_before>>

\* fibonacci.cache_clear(), between two calls
FibCacheClear ==
    /\ f_stack = <<>>
    /\ f_cache # ClearCache(f_cache)
    /\ f_cache' = ClearCache(f_cache)
    /\ UNCHANGED <<f_stack, f_body, f_before, f_steps, f_log>>

----------------------------------------------------------------------------
(* 9. rate_limit called by two threads: the wrapper's steps interleave      *)

RaceInit ==
    /\ rc_clock = 0
    /\ rc_calls = <<>>
    /\ rc_inner = <<>>
    /\ rc_pc = [c \in Callers |-> "idle"]
    /\ rc_now = [c \in Callers |-> 0]
    /\ rc_view = [c \in Callers |-> <<>>]
    /\ rc_idx = [c \in Callers |-> 0]
    /\ rc_started = 0
    /\ rc_overlap = FALSE

\* Time passes between two steps; the model looks at the clock every half
\* window.
RaceTick ==
    /\ rc_clock + (time_window \div 2) <= MaxRaceTime
    /\ rc_clock' = rc_clock + (time_window \div 2)
    /\ UNCHANGED <<rc_calls, rc_inner, rc_pc, rc_now, rc_view, rc_idx, rc_started, rc_overlap>>

\* line 227: now = time.time()
RaceReadClock(c) ==
    /\ rc_pc[c] = "idle"
    /\ rc_started < MaxRaceCalls
    /\ rc_now' = [rc_now EXCEPT ![c] = rc_clock]
    /\ rc_pc' = [rc_pc EXCEPT ![c] = "filter"]
    /\ rc_started' = rc_started + 1
    /\ rc_overlap' = (rc_overlap \/ \E d \in Callers \ {c} : rc_pc[d] # "idle")
    /\ UNCHANGED <<rc_clock, rc_calls, rc_inner, rc_view, rc_idx>>

\* line 230, right-hand side, one iteration of the list comprehension: the
\* iterator of the list `calls` hands out the item at its index while the
\* index is below len(calls), as the list is at that moment, and the item
\* is kept when now - call_time < time_window
RaceFilterNext(c) ==
    /\ rc_pc[c] = "filter"
    /\ rc_idx[c] < Len(rc_calls)
    /\ LET call_time == rc_calls[rc_idx[c] + 1] IN
        rc_view' = [rc_view EXCEPT ![c] =
                      IF InWindow(rc_now[c], call_time) THEN Append(@, call_time) ELSE @]
    /\ rc_idx' = [rc_idx EXCEPT ![c] = @ + 1]
    /\ UNCHANGED <<rc_clock, rc_calls, rc_inner, rc_pc, rc_now, rc_started, rc_overlap>>

\* line 230, right-hand side: the index has reached len(calls), the
\* comprehension is complete
RaceFilterEnd(c) ==
    /\ rc_pc[c] = "filter"
    /\ rc_idx[c] >= Len(rc_calls)
    /\ rc_idx' = [rc_idx EXCEPT ![c] = 0]
    /\ rc_pc' = [rc_pc EXCEPT ![c] = "assign"]
    /\ UNCHANGED <<rc_clock, rc_calls, rc_inner, rc_now, rc_view, rc_started, rc_overlap>>

\* line 230: calls[:] = the list just built
RaceAssign(c) ==
    /\ rc_pc[c] = "assign"
    /\ rc_calls' = rc_view[c]
    /\ rc_view' = [rc_view EXCEPT ![c] = <<>>]
    /\ rc_pc' = [rc_pc EXCEPT ![c] = "check"]
    /\ UNCHANGED <<rc_clock, rc_inner, rc_now, rc_idx, rc_started, rc_overlap>>

\* lines 232-233: len(calls) >= max_calls: raise Exception
RaceCheckRaises(c) ==
    /\ rc_pc[c] = "check"
    /\ ~Admitted(rc_calls)
    /\ rc_pc' = [rc_pc EXCEPT ![c] = "idle"]
    /\ rc_now' = [rc_now EXCEPT ![c] = 0]
    /\ UNCHANGED <<rc_clock, rc_calls, rc_inner, rc_view, rc_idx, rc_started, rc_overlap>>

\* lines 232-233: the check lets the call through
RaceCheckPasses(c) ==
    /\ rc_pc[c] = "check"
    /\ Admitted(rc_calls)
    /\ rc_pc' = [rc_pc EXCEPT ![c] = "append"]
    /\ UNCHANGED <<rc_clock, rc_calls, rc_inner, rc_now, rc_view, rc_idx, rc_started, rc_overlap>>

\* line 235: calls.append(now)
RaceAppend(c) ==
    /\ rc_pc[c] = "append"
    /\ rc_calls' = Append(rc_calls, rc_now[c])
    /\ rc_pc' = [rc_pc EXCEPT ![c] = "invoke"]
    /\ UNCHANGED <<rc_clock, rc_inner, rc_now, rc_view, rc_idx, rc_started, rc_overlap>>

\* line 236: return func(*args, **kwargs)
RaceInvoke(c) ==
    /\ rc_pc[c] = "invoke"
    /\ rc_inner' = Append(rc_inner, rc_now[c])
    /\ rc_pc' = [rc_pc EXCEPT ![c] = "idle"]
    /\ rc_now' = [rc_now EXCEPT ![c] = 0]
    /\ UNCHANGED <<rc_clock, rc_calls, rc_view, rc_idx, rc_started, rc_overlap>>

----------------------------------------------------------------------------
(* The specifications: one policy runs, the others stay as constructed.    *)

RetryParked ==
    /\ r_max = 3
    /\ r_pc = "idle"
    /\ r_attempt = 0
    /\ r_last = NoErr
    /\ r_hist = <<>>
    /\ r_sleeps = 0
    /\ r_out = NoOutcome
    /\ r_calls = 0
    /\ r_seq = 0
    /\ r_prev = NoOutcome

InitRetry == RetryInit /\ MemoInit /\ RateInit /\ ValInit /\ StackInit /\ StatInit
        /\ FibInit /\ RaceInit

\* Every policy as constructed, the retry wrapper not called: the initial
\* state of the specifications of the other policies.
InitParked == RetryParked /\ MemoInit /\ RateInit /\ ValInit /\ StackInit /\ StatInit
        /\ FibInit /\ RaceInit

NextRetry ==
    \/ RetryCall /\ UNCHANGED <<memoVars, rateVars, valVars, lateVars>>
    \/ \E v \in RetVals : RetryAttemptReturns(v) /\ UNCHANGED <<memoVars, rateVars, valVars, lateVars>>
    \/ \E k \in ErrKinds : RetryAttemptRaises(k) /\ UNCHANGED <<memoVars, rateVars, valVars, lateVars>>
    \/ \E k \in EscapeKinds :
          RetryAttemptEscapes(k) /\ UNCHANGED <<memoVars, rateVars, valVars, lateVars>>
    \/ RetrySleep /\ UNCHANGED <<memoVars, rateVars, valVars, lateVars>>
    \/ RetryRaise /\ UNCHANGED <<memoVars, rateVars, valVars, lateVars>>

NextMemo ==
    \/ \E form \in MemoForms : MemoCallHit(form) /\ UNCHANGED <<retryVars, rateVars, valVars, lateVars>>
    \/ \E form \in MemoForms, v \in MemoVals :
          MemoCallComputes(form, v) /\ UNCHANGED <<retryVars, rateVars, valVars, lateVars>>
    \/ \E form \in MemoForms : MemoCallRaises(form) /\ UNCHANGED <<retryVars, rateVars, valVars, lateVars>>
    \/ MemoCacheClear /\ UNCHANGED <<retryVars, rateVars, valVars, lateVars>>
    \/ MemoCacheInfo /\ UNCHANGED <<retryVars, rateVars, valVars, lateVars>>

NextRate ==
    \/ RateTick /\ UNCHANGED <<retryVars, memoVars, valVars, lateVars>>
    \/ RateCall /\ UNCHANGED <<retryVars, memoVars, valVars, lateVars>>

NextValidate ==
    \/ \E form \in ValForms :
          ValCallBindFails(form) /\ UNCHANGED <<retryVars, memoVars, rateVars, lateVars>>
    \/ \E form \in ValForms :
          ValCallRejects(form) /\ UNCHANGED <<retryVars, memoVars, rateVars, lateVars>>
    \/ \E form \in ValForms :
          ValCallInvokes(form) /\ UNCHANGED <<retryVars, memoVars, rateVars, lateVars>>
    \/ ValReturn /\ UNCHANGED <<retryVars, memoVars, rateVars, lateVars>>

NextStack ==
    \/ \E form \in StackForms :
          StackCall(form) /\ UNCHANGED <<retryVars, memoVars, rateVars, valVars, statVars, fibVars, raceVars>>
    \/ StackTick /\ UNCHANGED <<retryVars, memoVars, rateVars, valVars, statVars, fibVars, raceVars>>
    \/ TimerStart /\ UNCHANGED <<retryVars, memoVars, rateVars, valVars, statVars, fibVars, raceVars>>
    \/ TimerUnwinds /\ UNCHANGED <<retryVars, memoVars, rateVars, valVars, statVars, fibVars, raceVars>>
    \/ TimerReport /\ UNCHANGED <<retryVars, memoVars, rateVars, valVars, statVars, fibVars, raceVars>>
    \/ LogCallRecord /\ UNCHANGED <<retryVars, memoVars, rateVars, valVars, statVars, fibVars, raceVars>>
    \/ LogResult /\ UNCHANGED <<retryVars, memoVars, rateVars, valVars, statVars, fibVars, raceVars>>
    \/ LogException /\ UNCHANGED <<retryVars, memoVars, rateVars, valVars, statVars, fibVars, raceVars>>
    \/ LogUnwinds /\ UNCHANGED <<retryVars, memoVars, rateVars, valVars, statVars, fibVars, raceVars>>
    \/ ValidateRaises /\ UNCHANGED <<retryVars, memoVars, rateVars, valVars, statVars, fibVars, raceVars>>
    \/ ValidatePasses /\ UNCHANGED <<retryVars, memoVars, rateVars, valVars, statVars, fibVars, raceVars>>
    \/ ValidateReturns /\ UNCHANGED <<retryVars, memoVars, rateVars, valVars, statVars, fibVars, raceVars>>
    \/ MultiplyBody /\ UNCHANGED <<retryVars, memoVars, rateVars, valVars, statVars, fibVars, raceVars>>
    \/ MultiplyInterrupted /\ UNCHANGED <<retryVars, memoVars, rateVars, valVars, statVars, fibVars, raceVars>>
    \/ StackReturn /\ UNCHANGED <<retryVars, memoVars, rateVars, valVars, statVars, fibVars, raceVars>>

NextStats ==
    \/ \E c \in Callers, data \in StatData :
          StatStart(c, data) /\ UNCHANGED <<retryVars, memoVars, rateVars, valVars, stackVars, fibVars, raceVars>>
    \/ \E c \in Callers, elapsed \in 1..MaxElapsed :
          StatInner(c, elapsed) /\ UNCHANGED <<retryVars, memoVars, rateVars, valVars, stackVars, fibVars, raceVars>>
    \/ \E c \in Callers : StatCount(c) /\ UNCHANGED <<retryVars, memoVars, rateVars, valVars, stackVars, fibVars, raceVars>>
    \/ \E c \in Callers : StatAddTime(c) /\ UNCHANGED <<retryVars, memoVars, rateVars, valVars, stackVars, fibVars, raceVars>>
    \/ \E c \in Callers : StatPrint(c) /\ UNCHANGED <<retryVars, memoVars, rateVars, valVars, stackVars, fibVars, raceVars>>
    \/ \E c \in Callers : StatReturn(c) /\ UNCHANGED <<retryVars, memoVars, rateVars, valVars, stackVars, fibVars, raceVars>>
    \/ StatReset /\ UNCHANGED <<retryVars, memoVars, rateVars, valVars, stackVars, fibVars, raceVars>>
    \/ StatGetStats /\ UNCHANGED <<retryVars, memoVars, rateVars, valVars, stackVars, fibVars, raceVars>>
    \/ \E value \in {0, 7} :
          StatCallerWrites(value) /\ UNCHANGED <<retryVars, memoVars, rateVars, valVars, stackVars, fibVars, raceVars>>

NextFib ==
    \/ \E n \in FibArgs : FibCall(n) /\ UNCHANGED <<retryVars, memoVars, rateVars, valVars, stackVars, statVars, raceVars>>
    \/ FibHit /\ UNCHANGED <<retryVars, memoVars, rateVars, valVars, stackVars, statVars, raceVars>>
    \/ FibMiss /\ UNCHANGED <<retryVars, memoVars, rateVars, valVars, stackVars, statVars, raceVars>>
    \/ FibBase /\ UNCHANGED <<retryVars, memoVars, rateVars, valVars, stackVars, statVars, raceVars>>
    \/ FibFirst /\ UNCHANGED <<retryVars, memoVars, rateVars, valVars, stackVars, statVars, raceVars>>
    \/ FibSecond /\ UNCHANGED <<retryVars, memoVars, rateVars, valVars, stackVars, statVars, raceVars>>
    \/ FibStore /\ UNCHANGED <<retryVars, memoVars, rateVars, valVars, stackVars, statVars, raceVars>>
    \/ FibCacheClear /\ UNCHANGED <<retryVars, memoVars, rateVars, valVars, stackVars, statVars, raceVars>>

NextRace ==
    \/ RaceTick /\ UNCHANGED <<retryVars, memoVars, rateVars, valVars, stackVars, statVars, fibVars>>
    \/ \E c \in Callers : RaceReadClock(c)
          /\ UNCHANGED <<retryVars, memoVars, rateVars, valVars, stackVars, statVars, fibVars>>
    \/ \E c \in Callers : RaceFilterNext(c)
          /\ UNCHANGED <<retryVars, memoVars, rateVars, valVars, stackVars, statVars, fibVars>>
    \/ \E c \in Callers : RaceFilterEnd(c)
          /\ UNCHANGED <<retryVars, memoVars, rateVars, valVars, stackVars, statVars, fibVars>>
    \/ \E c \in Callers : RaceAssign(c)
          /\ UNCHANGED <<retryVars, memoVars, rateVars, valVars, stackVars, statVars, fibVars>>
    \/ \E c \in Callers : RaceCheckRaises(c)
          /\ UNCHANGED <<retryVars, memoVars, rateVars, valVars, stackVars, statVars, fibVars>>
    \/ \E c \in Callers : RaceCheckPasses(c)
          /\ UNCHANGED <<retryVars, memoVars, rateVars, valVars, stackVars, statVars, fibVars>>
    \/ \E c \in Callers : RaceAppend(c)
          /\ UNCHANGED <<retryVars, memoVars, rateVars, valVars, stackVars, statVars, fibVars>>
    \/ \E c \in Callers : RaceInvoke(c)
          /\ UNCHANGED <<retryVars, memoVars, rateVars, valVars, stackVars, statVars, fibVars>>

SpecRetry == InitRetry /\ [][NextRetry]_vars

SpecMemo == InitParked /\ [][NextMemo]_vars

SpecRate == InitParked /\ [][NextRate]_vars

SpecValidate == InitParked /\ [][NextValidate]_vars

SpecStack == InitParked /\ [][NextStack]_vars

SpecStats == InitParked /\ [][NextStats]_vars

SpecFib == InitParked /\ [][NextFib]_vars

SpecRace == InitParked /\ [][NextRace]_vars

----------------------------------------------------------------------------
(* Claims about retry                                                      *)

\* Every invocation of the inner callable so far in this call has raised.
AllRaised == \A i \in 1..Len(r_hist) : r_hist[i].tag = "raise"

\* Every exception raised so far in this call is a subclass of Exception.
AllExceptions ==
    \A i \in 1..Len(r_hist) :
        r_hist[i].tag = "raise" => r_hist[i].err.kind \in {"Exception", "ValueError"}

\* C1 as stated: when the inner callable raises on its first k-1
\* invocations and returns a value on its k-th, 1 <= k <= max_attempts,
\* the call of the wrapper returns exactly that value after exactly k
\* invocations: the success is the last invocation, and the wrapper does
\* not give up while every invocation has raised and fewer than
\* max_attempts were made.
C1_Original_AnyRaise ==
    /\ \A k \in 1..Len(r_hist) :
          r_hist[k].tag = "return" =>
            /\ k = Len(r_hist)
            /\ k <= r_max
            /\ r_pc = "done"
            /\ r_out = Returned(r_hist[k].val)
    /\ (r_pc \in {"raise", "done"} /\ AllRaised) => Len(r_hist) >= r_max

\* C1 amended: the same for an inner callable whose first k-1 invocations
\* raise subclasses of Exception; an exception of another class is not
\* caught, ends the call at that invocation and is what the caller gets.
C1_RetryReturnsFirstSuccess ==
    /\ \A k \in 1..Len(r_hist) :
          r_hist[k].tag = "return" =>
            /\ k = Len(r_hist)
            /\ k <= r_max
            /\ r_pc = "done"
            /\ r_out = Returned(r_hist[k].val)
    /\ (r_pc \in {"raise", "done"} /\ AllRaised /\ AllExceptions) => Len(r_hist) >= r_max
    /\ ~AllExceptions =>
          /\ r_pc = "done"
          /\ r_out = r_hist[Len(r_hist)]
          /\ r_out.err.kind \notin {"Exception", "ValueError"}

\* A call that succeeded on its third invocation, after two failures.
C1_Witness ==
    /\ r_pc = "done"
    /\ Len(r_hist) = 3
    /\ r_hist[1].tag = "raise" /\ r_hist[2].tag = "raise"
    /\ r_hist[3].tag = "return"
    /\ r_out = Returned(r_hist[3].val)

\* C2 as stated: on permanent failure the call fails with an error of kind
\* RetryExhausted after exactly max_attempts invocations.
C2_Original_RetryExhaustedKind ==
    (r_pc = "done" /\ AllRaised) =>
        /\ r_out.tag = "raise"
        /\ r_out.err.kind = "RetryExhausted"
        /\ Len(r_hist) = r_max

\* C2 amended: when every invocation fails with a subclass of Exception,
\* the call fails after exactly max_attempts invocations, and the error it
\* fails with has the class the inner callable raised last: there is no
\* wrapping error kind.
C2_RetryFailsAfterMaxAttempts ==
    (r_pc = "done" /\ AllRaised /\ AllExceptions) =>
        /\ r_out.tag = "raise"
        /\ Len(r_hist) = r_max
        /\ r_out.err.kind \in ErrKinds
        /\ r_out.err.kind = r_hist[r_max].err.kind

\* A call with max_attempts = 3 that failed three times and has ended.
C2_Witness ==
    /\ r_pc = "done"
    /\ r_max = 3
    /\ Len(r_hist) = 3
    /\ AllRaised
    /\ r_out.tag = "raise"

\* C3: when all attempts fail, the caller gets the very exception object the
\* last attempt raised (same identity, same class), not the one of an earlier
\* attempt, and never a normal return.
C3_RetryRaisesLastError ==
    (r_pc = "done" /\ AllRaised) =>
        /\ r_out.tag # "return"
        /\ r_out = Raised(r_hist[Len(r_hist)].err)
        /\ \A i \in 1..(Len(r_hist) - 1) : r_out.err # r_hist[i].err

\* An exhausted call whose first and last attempts raised different classes.
C3_Witness ==
    /\ r_pc = "done"
    /\ AllRaised
    /\ Len(r_hist) >= 2
    /\ r_hist[1].err.kind # r_hist[Len(r_hist)].err.kind
    /\ r_out.tag = "raise"
    /\ r_out.err.kind = r_hist[Len(r_hist)].err.kind

\* C15: within one call a delay is waited exactly once after each failed
\* attempt that is followed by another attempt, never after a success and
\* never after the final failed attempt: a call that succeeds on attempt k
\* has waited k-1 times, a call that exhausts max_attempts has waited
\* max_attempts-1 times, and with max_attempts = 1 the inner callable is
\* invoked once with no delay.
C15_RetryDelays ==
    /\ r_pc = "try" => r_sleeps = Len(r_hist)
    /\ r_pc = "sleep" => (r_sleeps = Len(r_hist) - 1 /\ Len(r_hist) < r_max)
    /\ r_pc \in {"raise", "done"} => r_sleeps = Len(r_hist) - 1
    /\ (r_pc = "done" /\ r_out.tag = "raise" /\ Len(r_hist) = r_max) =>
          r_sleeps = r_max - 1
    /\ (r_pc = "done" /\ r_max = 1) => (Len(r_hist) = 1 /\ r_sleeps = 0)

\* A call that failed twice, waited twice and succeeded on its third attempt.
C15_Witness ==
    /\ r_pc = "done"
    /\ r_out.tag = "return"
    /\ Len(r_hist) = 3
    /\ r_sleeps = 2

\* C17: the attempt counter and the last-seen error are reset when the
\* wrapper is entered: a call starts with attempt 0 and no remembered error,
\* gets max_attempts attempts however the previous call ended, and the error
\* it raises is one raised during this call, never the error of the
\* previous call.
C17_RetryStatePerCall ==
    /\ (r_pc = "try" /\ Len(r_hist) = 0) => (r_attempt = 0 /\ r_last = NoErr)
    /\ r_pc \in {"try", "sleep"} => r_attempt = Len(r_hist) - (IF r_pc = "sleep" THEN 1 ELSE 0)
    /\ (r_pc = "done" /\ r_out.tag = "raise") =>
          /\ r_out.err.kind \in {"Exception", "ValueError"} => Len(r_hist) = r_max
          /\ \E i \in 1..Len(r_hist) : r_hist[i] = r_out
          /\ r_prev.tag = "raise" => r_out.err # r_prev.err

\* A second call that used all its three attempts and raised its own last
\* error, after a first call that had ended with an error too.
C17_Witness ==
    /\ r_calls = 2
    /\ r_prev.tag = "raise"
    /\ r_pc = "done"
    /\ r_out.tag = "raise"
    /\ r_max = 3
    /\ Len(r_hist) = 3
    /\ r_out.err.id > r_prev.err.id

----------------------------------------------------------------------------
(* Claims about memoize                                                    *)

\* C4: while the inner callable has never failed and cache_clear has not
\* been called, a call with an argument set that was called before does not
\* invoke the inner callable and returns the result stored by the first
\* call, a call with a new argument set invokes it, and the number of inner
\* invocations equals the number of distinct argument sets seen.
C4_MemoOncePerArgSet ==
    (~m_failed /\ ~m_cleared) =>
        /\ m_invoked = Cardinality(m_seen)
        /\ (m_last.op = "call" /\ m_last.known) =>
              /\ ~m_last.invoked
              /\ m_last.out = Returned(m_first[m_last.argset])
        /\ (m_last.op = "call" /\ ~m_last.known) => m_last.invoked

\* A repeated call answered from the cache after three argument sets were
\* computed, in a run without failure and without cache_clear.
C4_Witness ==
    /\ ~m_failed /\ ~m_cleared
    /\ m_last.op = "call" /\ m_last.known /\ ~m_last.invoked
    /\ m_invoked = 3
    /\ Cardinality(m_seen) = 3

\* C5 as stated: over every sequence of calls, cache_clear and cache_info,
\* once the inner callable has returned a value for an argument set, no later
\* call with it invokes the inner callable again.
C5_Original_NeverRecomputed ==
    (m_last.op = "call" /\ m_last.everKnown) => ~m_last.invoked

\* C5 amended: once the inner callable has returned a value for an argument
\* set, no later call with it invokes the inner callable again until
\* cache_clear is called: such a call returns the value stored since the
\* last cache_clear.
C5_MemoNoRecomputeSinceClear ==
    (m_last.op = "call" /\ m_last.known) =>
        /\ ~m_last.invoked
        /\ m_last.out = Returned(m_first[m_last.argset])

\* A cache hit in a run that has seen a failure and a cache_clear.
C5_Witness ==
    /\ m_cleared /\ m_failed
    /\ m_last.op = "call" /\ m_last.known /\ ~m_last.invoked
    /\ m_last.out.tag = "return"

\* C6: a call in which the inner callable raises ends with that exception,
\* stores nothing (the cache and its entry count are unchanged, the key is
\* still absent), and the next call with the same arguments invokes the
\* inner callable again.
C6_MemoFailureNotCached ==
    [][ /\ (m_last'.op = "call" /\ m_last'.out.tag = "raise") =>
              /\ m_last'.invoked
              /\ m_cache' = m_cache
              /\ CacheInfo(m_cache').size = CacheInfo(m_cache).size
              /\ \A form \in MemoForms :
                    ArgSet(form) = m_last'.argset => CacheMiss(m_cache', MemoKey(form))
        /\ (/\ m_last.op = "call" /\ m_last.out.tag = "raise"
            /\ m_last'.op = "call" /\ m_last'.argset = m_last.argset) =>
              m_last'.invoked
      ]_vars

\* One argument set called twice with no cache_clear: the first call failed,
\* the second invoked the inner callable again and got a result.
C6_Witness ==
    /\ ~m_cleared /\ m_failed
    /\ Cardinality(m_seen) = 1
    /\ m_invoked = 2
    /\ m_last.op = "call" /\ m_last.invoked /\ m_last.out.tag = "return"

\* C7: the entry count cache_info() reports equals the number of distinct
\* argument sets the inner callable has returned for since the last
\* cache_clear (or since creation), and right after cache_clear it is 0.
C7_MemoEntryCount ==
    /\ CacheInfo(m_cache).size = Cardinality(DOMAIN m_first)
    /\ m_last.op = "info" => m_last.info.size = Cardinality(DOMAIN m_first)
    /\ m_last.op = "clear" => CacheInfo(m_cache).size = 0

\* cache_info() reporting 2 entries after a cache_clear, a failure and
\* results for at least three argument sets over the wrapper's lifetime.
C7_Witness ==
    /\ m_last.op = "info"
    /\ m_last.info.size = 2
    /\ m_cleared /\ m_failed
    /\ Cardinality(m_ever) >= 3

----------------------------------------------------------------------------
(* Claims about rate_limit                                                 *)

\* The times of the calls accepted before the last call of the wrapper.
PriorAccepted ==
    IF rl_last.accepted THEN SubSeq(rl_inner, 1, Len(rl_inner) - 1) ELSE rl_inner

\* How many of the times in `times` are less than time_window before t.
CountRecent(times, t) ==
    Cardinality({i \in 1..Len(times) : t - times[i] < time_window})

\* How many entries of `times` equal t.
Occurrences(times, t) == Cardinality({i \in 1..Len(times) : times[i] = t})

\* C8: a call at time t is rejected with the rate-limit error, t not being
\* recorded, exactly when at least max_calls previously accepted calls are
\* less than time_window before t; otherwise t is recorded and the inner
\* callable invoked.  So in every trailing window (T - time_window, T] the
\* inner callable was invoked at most max_calls times.
C8_RateLimitAdmission ==
    /\ rl_last.op = "call" =>
          /\ ~rl_last.accepted <=>
                CountRecent(PriorAccepted, rl_last.now) >= max_calls
          /\ ~rl_last.accepted =>
                /\ rl_last.out = Raised(RateLimitError)
                /\ Occurrences(rl_calls, rl_last.now) = Occurrences(rl_inner, rl_last.now)
          /\ rl_last.accepted =>
                /\ rl_last.out.tag = "return"
                /\ rl_calls[Len(rl_calls)] = rl_last.now
                /\ rl_inner[Len(rl_inner)] = rl_last.now
    /\ \A T \in 0..rl_clock :
          Cardinality({i \in 1..Len(rl_inner) :
                         T - time_window < rl_inner[i] /\ rl_inner[i] <= T}) <= max_calls

\* A call rejected because of three accepted calls inside the window, while
\* an older accepted call has left the window and does not count.
C8_Witness ==
    /\ rl_last.op = "call" /\ ~rl_last.accepted
    /\ Len(rl_inner) = 4
    /\ rl_last.now - rl_inner[1] >= time_window
    /\ rl_last.now - rl_inner[2] < time_window

\* C9 as stated: the first max_calls calls succeed; a call made while
\* max_calls accepted calls are inside the window fails with an error of
\* kind RateLimitExceeded; and a call made once time_window has elapsed since
\* every accepted call succeeds, however many calls were rejected in between.
C9_Original_RateLimitExceededKind ==
    rl_last.op = "call" =>
        /\ Len(PriorAccepted) < max_calls => rl_last.accepted
        /\ (/\ Len(PriorAccepted) >= max_calls
            /\ rl_last.now - PriorAccepted[Len(PriorAccepted) - max_calls + 1]
                 < time_window) =>
              /\ ~rl_last.accepted
              /\ rl_last.out.tag = "raise"
              /\ rl_last.out.err.kind = "RateLimitExceeded"
        /\ (\A i \in 1..Len(PriorAccepted) :
               rl_last.now - PriorAccepted[i] >= time_window) => rl_last.accepted

\* C9 amended: the first max_calls calls succeed; a call made while
\* max_calls accepted calls are inside the window fails with a plain
\* Exception whose message is "Rate limit exceeded: ..."; and a call made
\* once time_window has elapsed since every accepted call succeeds, however
\* many calls were rejected in between.
C9_RateLimitRecovery ==
    rl_last.op = "call" =>
        /\ Len(PriorAccepted) < max_calls => rl_last.accepted
        /\ (/\ Len(PriorAccepted) >= max_calls
            /\ rl_last.now - PriorAccepted[Len(PriorAccepted) - max_calls + 1]
                 < time_window) =>
              /\ ~rl_last.accepted
              /\ rl_last.out = Raised(RateLimitError)
        /\ (\A i \in 1..Len(PriorAccepted) :
               rl_last.now - PriorAccepted[i] >= time_window) => rl_last.accepted

\* Three calls accepted, three rejected in the same window, and the next
\* call accepted once the window of the accepted calls has elapsed.
C9_Witness ==
    /\ rl_last.op = "call" /\ rl_last.accepted
    /\ rl_last.rejects = 3
    /\ Len(rl_inner) = max_calls + 1
    /\ rl_last.now - rl_inner[max_calls] >= time_window
    /\ rl_inner[max_calls] - rl_inner[1] < time_window

\* C16: after every call, accepted or rejected, the list `calls` is in
\* non-decreasing order, holds at most max_calls entries, and is exactly the
\* times of the accepted calls that are less than time_window before that
\* call's `now`: older entries have been removed, the others retained.
C16_RateCallWindow ==
    rl_last.op = "call" =>
        /\ \A i \in 1..(Len(rl_calls) - 1) : rl_calls[i] <= rl_calls[i + 1]
        /\ Len(rl_calls) <= max_calls
        /\ rl_calls = SelectSeq(rl_inner, LAMBDA t : rl_last.now - t < time_window)

\* An accepted call at which the entry exactly time_window old was removed
\* and two younger entries were retained.
C16_Witness ==
    /\ rl_last.op = "call" /\ rl_last.accepted
    /\ Len(rl_inner) = 4
    /\ rl_last.now - rl_inner[1] = time_window
    /\ Len(rl_calls) = 3
    /\ rl_calls[1] < rl_last.now

----------------------------------------------------------------------------
(* Claims about validate_types                                             *)

\* Every configured parameter present in the binding holds an instance of
\* its expected type.
AllBoundValuesTyped(bound) ==
    \A i \in 1..Len(ExpectedNames) :
        ExpectedNames[i] \in DOMAIN bound =>
            IsInstance(bound[ExpectedNames[i]], ExpectedType(ExpectedNames[i]))

\* The error names a configured parameter whose bound value has the wrong
\* type, with the expected and the actual type.
NamesAMismatch(err, bound) ==
    \E i \in 1..Len(ExpectedNames) :
        /\ ExpectedNames[i] \in DOMAIN bound
        /\ ~IsInstance(bound[ExpectedNames[i]], ExpectedType(ExpectedNames[i]))
        /\ err.msg = MismatchMessage(ExpectedNames[i], ExpectedType(ExpectedNames[i]),
                                     bound[ExpectedNames[i]])

\* C10 as stated: for a call whose arguments bind, the inner callable is
\* invoked if and only if every configured parameter present in the binding
\* holds a value of its expected type; otherwise the call fails with a
\* ValidationError naming the parameter, the expected and the actual type.
C10_Original_ValidationErrorKind ==
    (v_last.op = "call" /\ DOMAIN v_last.bound # {}) =>
        /\ v_last.invoked <=> AllBoundValuesTyped(v_last.bound)
        /\ ~v_last.invoked =>
              /\ v_last.out.tag = "raise"
              /\ v_last.out.err.kind = "ValidationError"
              /\ NamesAMismatch(v_last.out.err, v_last.bound)

\* C10 amended: the same, the error being a TypeError (the class the code
\* raises; it defines no ValidationError).
C10_ValidateTypes ==
    (v_last.op = "call" /\ DOMAIN v_last.bound # {}) =>
        /\ v_last.invoked <=> AllBoundValuesTyped(v_last.bound)
        /\ v_last.invoked => v_last.out.tag = "return"
        /\ ~v_last.invoked =>
              /\ v_last.out.tag = "raise"
              /\ v_last.out.err.kind = "TypeError"
              /\ NamesAMismatch(v_last.out.err, v_last.bound)

\* create_user(name="John", age="thirty", email="x@y.com") has failed with
\* the error naming age, int and str, and create_user was not invoked.
C10_Witness ==
    /\ v_last.op = "call"
    /\ v_last.form = CallForm(<<>>, [p \in {"name", "age", "email"} |-> "str"])
    /\ ~v_last.invoked
    /\ v_last.out.tag = "raise"
    /\ v_last.out.err.msg = "age must be int, got str"

----------------------------------------------------------------------------
(* Claims about timer, log_calls and their composition on multiply         *)

\* The call has come back to the caller.
StackDone == s_dir = "ret" /\ s_at = "caller"

\* The positions in the run of the events of one kind.
EventsOfKind(kind) == {i \in 1..Len(s_events) : s_events[i].kind = kind}

\* The kinds of the events of the run, in order.
EventKinds == [i \in 1..Len(s_events) |-> s_events[i].kind]

\* C11 as stated: on every call of the timer wrapper, one whose inner
\* callable raises included, the measured duration is reported, the inner
\* callable has been invoked exactly once, and an error of the inner call
\* reaches the caller unchanged.
C11_TimerReportsEveryCall ==
    StackDone =>
        /\ \E i \in 1..Len(s_events) :
              /\ s_events[i].kind = "timer_report"
              /\ s_events[i].text =
                    "multiply took " \o ToString(s_clock - s_start)
                        \o ".0000 seconds to execute"
        /\ Cardinality({i \in EventsOfKind("log") : s_events[i].level = "INFO"
                           /\ s_events[i].text = CallRecord(s_form)}) = 1
        /\ MulValidationError(s_form) # NoErr =>
              s_flight = StackRaised(MulValidationError(s_form))

\* The last log record of the run.
LastLog ==
    s_events[CHOOSE i \in EventsOfKind("log") : \A j \in EventsOfKind("log") : j <= i]

\* C12 as stated: log_calls emits the call record before it invokes its
\* inner callable, invokes it exactly once, and then either emits the
\* result record and returns the result, or, on any failure, emits the
\* kind and message of the error and lets the same error reach the caller.
C12_Original_AnyFailure ==
    /\ \A j \in EventsOfKind("validation") :
          \E i \in 1..(j - 1) : s_events[i] = Event("log", "INFO", CallRecord(s_form))
    /\ Cardinality(EventsOfKind("validation")) <= 1
    /\ StackDone =>
          /\ Cardinality(EventsOfKind("validation")) = 1
          /\ Cardinality(EventsOfKind("log")) = 2
          /\ IF s_flight.tag = "return"
                THEN LastLog = Event("log", "INFO",
                                     "multiply returned: " \o s_flight.val.text)
                ELSE LastLog = Event("log", "ERROR",
                                     "multiply raised " \o s_flight.err.kind
                                         \o ": " \o s_flight.err.msg)

\* C12 amended: log_calls emits the call record before it invokes its
\* inner callable, invokes it exactly once, and then either emits the
\* result record and returns the result, or, when the inner callable
\* raises a subclass of Exception, emits the kind and message of the error
\* and lets the same error reach the caller; an exception of another class
\* reaches the caller as it is, with no record after the call record.
C12_LogCalls ==
    /\ \A j \in EventsOfKind("validation") :
          \E i \in 1..(j - 1) : s_events[i] = Event("log", "INFO", CallRecord(s_form))
    /\ Cardinality(EventsOfKind("validation")) <= 1
    /\ StackDone =>
          /\ Cardinality(EventsOfKind("validation")) = 1
          /\ LET e == MulValidationError(s_form)
             IN  IF s_flight.tag = "return"
                   THEN /\ e = NoErr
                        /\ Cardinality(EventsOfKind("log")) = 2
                        /\ LastLog = Event("log", "INFO",
                                           "multiply returned: " \o s_flight.val.text)
                        /\ s_flight.val = Product(MulBound(s_form)["x"], MulBound(s_form)["y"])
                 ELSE IF e # NoErr
                   THEN /\ s_flight = StackRaised(e)
                        /\ Cardinality(EventsOfKind("log")) = 2
                        /\ LastLog = Event("log", "ERROR",
                                           "multiply raised " \o e.kind \o ": " \o e.msg)
                 ELSE /\ s_flight = StackRaised(Exc("KeyboardInterrupt", 1, ""))
                      /\ Cardinality(EventsOfKind("log")) = 1
                      /\ LastLog = Event("log", "INFO", CallRecord(s_form))

\* multiply("a", 5) has come back: the error record was emitted and the
\* TypeError reached the caller.
C12_Witness ==
    /\ StackDone
    /\ s_form = CallForm(<<StrV("a"), IntV("5")>>, <<>>)
    /\ s_flight.tag = "raise"
    /\ s_flight.err.msg = "x must be int, got str"
    /\ \E i \in 1..Len(s_events) :
          s_events[i] = Event("log", "ERROR",
                              "multiply raised TypeError: x must be int, got str")

\* C13 as stated: a call of multiply whose arguments fail validation does
\* not run the body, has its error record emitted by log_calls, and has a
\* duration reported by timer before the error reaches the caller.
C13_FailedValidationIsTimed ==
    (StackDone /\ MulValidationError(s_form) # NoErr) =>
        /\ EventsOfKind("inner") = {}
        /\ \E i \in EventsOfKind("log") : s_events[i].level = "ERROR"
        /\ EventsOfKind("timer_report") # {}
        /\ s_flight.tag = "raise"

\* C14: the wrappers nest last-in first-out: a successful call of multiply
\* runs timer's start, log_calls's call record, the validation, the body,
\* log_calls's result record and timer's report, in this order, and nothing
\* else; while it runs, the events so far are the beginning of that list.
C14_CompositionOrder ==
    LET order == <<"timer_start", "log", "validation", "inner", "log", "timer_report">>
    IN  /\ (StackDone /\ s_flight.tag = "return") =>
              /\ EventKinds = order
              /\ s_events[2].text = CallRecord(s_form)
              /\ s_events[5].text = ResultRecord(s_flight.val)
        /\ MulValidationError(s_form) = NoErr =>
              /\ Len(s_events) <= Len(order)
              /\ EventKinds = SubSeq(order, 1, Len(s_events))

\* multiply(4, y=5) has returned 20 after one second.
C14_Witness ==
    /\ StackDone
    /\ s_form = CallForm(<<IntV("4")>>, <<Kw("y", IntV("5"))>>)
    /\ s_flight = StackReturned(IntV("20"))
    /\ s_events[2].text = "Calling multiply(4, y=5)"
    /\ s_events[5].text = "multiply returned: 20"
    /\ s_events[6].text = "multiply took 1.0000 seconds to execute"

----------------------------------------------------------------------------
(* Claims about stateful_decorator                                         *)

\* No call of the wrapper is under way: the states a single-threaded caller
\* sees between two operations.
StatQuiet == \A c \in Callers : st_pc[c] = "idle"

\* C20 as stated, the part that fails: in every reachable state
\* state["calls"] is the number of calls that returned since creation or
\* the last reset_stats.
C20_Original_EveryState == st_heap[StateObject].calls = st_ok

\* C20 amended: as long as no operation has acted while a call of the
\* wrapper was under way, between operations state["calls"] is the number
\* of calls that returned since creation or the last reset_stats; a call
\* whose inner callable raises lets the error through and leaves "calls"
\* and "total_time" as they were; reset_stats sets both to 0; a write to
\* the mapping that get_stats returned leaves the state of the wrapper as
\* it was.  A call ends with an error that is not the inner callable's
\* only after such an overlap.
C20_StatefulCounters ==
    LET state == st_heap[StateObject]
    IN  /\ (~st_overlap /\ StatQuiet) =>
              /\ state.calls = st_ok
              /\ (st_last.op = "call" /\ st_last.out.tag = "raise") =>
                    /\ state = st_last.before
                    /\ st_last.out.err.kind = "TypeError"
              /\ (st_last.op = "call" /\ st_last.out.tag = "return") =>
                    /\ state.calls = st_last.before.calls + 1
                    /\ state.total_time.val >= st_last.before.total_time.val
                    /\ state.total_time.type = "float"
              /\ st_last.op = "reset_stats" =>
                    (state.calls = 0 /\ state.total_time = [type |-> "int", val |-> 0])
              /\ st_last.op = "get_stats" => st_heap[st_ref] = state
              /\ st_last.op = "write" => state = st_last.before
        /\ (st_last.op = "call" /\ st_last.out.tag = "raise"
               /\ st_last.out.err.kind # "TypeError") => st_overlap

\* Two calls have returned one after the other, and the caller has written
\* to the mapping it got from get_stats.
C20_Witness ==
    /\ ~st_overlap
    /\ StatQuiet
    /\ st_last.op = "write"
    /\ st_ok = 2
    /\ st_heap[StateObject].calls = 2
    /\ st_heap[StateObject].total_time.val > 0
    /\ st_heap[CallerObject].calls = 7

----------------------------------------------------------------------------
(* Claims about the memoized fibonacci                                     *)

\* The n-th Fibonacci number.
RECURSIVE FibNumber(_)
FibNumber(n) == IF n < 2 THEN n ELSE FibNumber(n - 1) + FibNumber(n - 2)

\* A step of a call of fibonacci that is under way.
FibStep == FibHit \/ FibMiss \/ FibBase \/ FibFirst \/ FibSecond \/ FibStore

\* C19 as stated: a call fibonacci(n), n >= 1, made with an empty cache
\* invokes the body exactly once for each of the arguments 0..n, returns
\* the n-th Fibonacci number and leaves n+1 entries.
C19_Original_FibFromOne ==
    \A i \in 1..Len(f_log) :
        (f_log[i].before = 0 /\ f_log[i].n >= 1) =>
            /\ \A k \in 0..f_log[i].n : f_log[i].body[k] = 1
            /\ f_log[i].result = FibNumber(f_log[i].n)
            /\ f_log[i].after = f_log[i].n + 1

\* C19, amended: a call fibonacci(n) made with an empty cache comes to an
\* end and returns the n-th Fibonacci number; for n >= 2 it invokes the
\* body exactly once for each of 0..n and leaves n+1 entries, for n < 2 it
\* invokes the body once, for n alone, and leaves one entry.  A following
\* call fibonacci(m) with 0 <= m <= n, n >= 2, does not invoke the body.
C19_FibReentrant ==
    /\ f_stack # <<>> =>
          LET n == IF f_stack[1].n < 0 THEN 0 ELSE f_stack[1].n
          IN  /\ ENABLED FibStep
              /\ f_steps <= 5 * (n + 1)
              /\ Len(f_stack) <= n + 1
    /\ \A i \in 1..Len(f_log) :
          LET c == f_log[i]
          IN  /\ c.before = 0 =>
                    /\ c.result = FibNumber(c.n)
                    /\ c.n >= 2 =>
                          /\ \A k \in FibArgs : c.body[k] = (IF k \in 0..c.n THEN 1 ELSE 0)
                          /\ c.after = c.n + 1
                    /\ c.n < 2 =>
                          /\ \A k \in FibArgs : c.body[k] = (IF k = c.n THEN 1 ELSE 0)
                          /\ c.after = 1
              /\ (i > 1 /\ f_log[i - 1].before = 0 /\ f_log[i - 1].n >= 2
                    /\ c.before = f_log[i - 1].after
                    /\ c.n \in 0..f_log[i - 1].n) =>
                    /\ \A k \in FibArgs : c.body[k] = 0
                    /\ c.result = FibNumber(c.n)
                    /\ c.after = c.before

\* fibonacci(4) with an empty cache returned 3 and left five entries, and
\* fibonacci(3) after it returned 2 without a call of the body.
C19_Witness ==
    /\ Len(f_log) = 2
    /\ f_log[1].before = 0 /\ f_log[1].n = 4 /\ f_log[1].result = 3
    /\ f_log[1].after = 5
    /\ f_log[2].before = 5 /\ f_log[2].n = 3 /\ f_log[2].result = 2
    /\ \A k \in FibArgs : f_log[2].body[k] = 0

----------------------------------------------------------------------------
(* Claims about rate_limit under two callers                               *)

\* More than max_calls invocations of the inner callable carry a `now`
\* within one window of time_window seconds.
OverAdmitted ==
    \E j \in 1..Len(rc_inner) :
        Cardinality({i \in 1..Len(rc_inner) :
                        /\ rc_inner[j] - rc_inner[i] >= 0
                        /\ rc_inner[j] - rc_inner[i] < time_window}) > max_calls

\* C18: the steps of the wrapper are not mutually exclusive: more than
\* max_calls calls are admitted within one window only when a caller
\* entered the wrapper while the other was inside it, and with such
\* interleaving that state is reached (C18_Witness): the bound of a single
\* caller does not carry over.
C18_RaceOverAdmission ==
    /\ OverAdmitted => rc_overlap
    /\ ~rc_overlap => Len(rc_calls) <= max_calls

\* Four calls admitted, and the inner callable invoked four times, at one
\* and the same second; both callers are back.
C18_Witness ==
    /\ OverAdmitted
    /\ rc_overlap
    /\ \A c \in Callers : rc_pc[c] = "idle"
    /\ Len(rc_inner) = max_calls + 1
    /\ \A i \in 1..Len(rc_inner) : rc_inner[i] = rc_inner[1]
    /\ Len(rc_calls) = max_calls + 1

=============================================================================
